---- MODULE Spec2Model ----
(***************************************************************************)
(* Model of the resolution-and-caching engine of go.dw1.io/godoc:          *)
(* Godoc.Load, getOrLoadPkg / getOrLoadSymbol, buildDoc, checkModuleDep,   *)
(* and the process-wide cache (getCache, setCacheEntry).                   *)
(*                                                                         *)
(* Strings are sequences of one-character strings, so that validation,     *)
(* trimming and the remote-path test are computed character by character   *)
(* as the Go code does.                                                    *)
(***************************************************************************)
EXTENDS Integers, Sequences, FiniteSets, TLC

\* ------------------------------------------------------------------------
\* Bounds
\* ------------------------------------------------------------------------
MaxLoads == 2
MaxRestarts == 1
MaxPathLen == 3
MaxSelLen == 2
MaxDocLen == 2
MaxHTMLCalls == 3
MaxDecls == 2
MaxWorkers == 2

\* ------------------------------------------------------------------------
\* Short variable declaration (v := ...; F): v is computed once and F uses it
\* ------------------------------------------------------------------------
With(v, F(_)) == F(v)

\* ------------------------------------------------------------------------
\* String helpers (package strings)
\* ------------------------------------------------------------------------
Nil == "nil"
NUL == "\\0"

RECURSIVE TrimLeft(_)
TrimLeft(s) ==
    IF s # <<>> /\ Head(s) = " " THEN TrimLeft(Tail(s)) ELSE s

RECURSIVE TrimRight(_)
TrimRight(s) ==
    IF s # <<>> /\ s[Len(s)] = " " THEN TrimRight(SubSeq(s, 1, Len(s) - 1)) ELSE s

TrimSpace(s) == TrimRight(TrimLeft(s))

HasPrefix(s, p) ==
    Len(s) >= Len(p) /\ SubSeq(s, 1, Len(p)) = p

Contains(s, sub) ==
    \E i \in 1..(Len(s) - Len(sub) + 1) : SubSeq(s, i, i + Len(sub) - 1) = sub

\* strings.Index for a one-character needle; 0 stands for Go's -1.
Index(s, c) ==
    IF \E i \in 1..Len(s) : s[i] = c
    THEN CHOOSE i \in 1..Len(s) : s[i] = c /\ \A j \in 1..(i - 1) : s[j] # c
    ELSE 0

\* Character classes of selectorRegex.
IsIdentStart(c) == c \in {"a", "f", "m", "p", "x", "y", "z", "_"}
IsIdentPart(c) == IsIdentStart(c) \/ c \in {"1", "2"}

\* selectorRegex = ^[a-zA-Z_][a-zA-Z0-9_]*(\.[a-zA-Z_][a-zA-Z0-9_]*)*$
\* run as its automaton: "start" expects the first character of an
\* identifier, "ident" is inside one, "dead" rejects.
RECURSIVE selectorRun(_, _)
selectorRun(s, q) ==
    IF s = <<>> THEN q
    ELSE LET c == Head(s)
             q2 == CASE q = "start" /\ IsIdentStart(c) -> "ident"
                      [] q = "ident" /\ IsIdentPart(c) -> "ident"
                      [] q = "ident" /\ c = "." -> "start"
                      [] OTHER -> "dead"
         IN selectorRun(Tail(s), q2)

selectorRegex(s) == selectorRun(s, "start") = "ident"

\* ------------------------------------------------------------------------
\* utils.go
\* ------------------------------------------------------------------------
ErrEmptyImportPath == "ErrEmptyImportPath"
ErrInvalidImportPath == "ErrInvalidImportPath"
ErrInvalidSelector == "ErrInvalidSelector"

\* validateInputs without the ".." test.
validateInputsNoTraversal(importPath, sel) ==
    IF TrimSpace(importPath) = <<>> THEN ErrEmptyImportPath
    ELSE IF HasPrefix(importPath, <<"/">>) THEN ErrInvalidImportPath
    ELSE IF sel # <<>> /\ ~selectorRegex(sel) THEN ErrInvalidSelector
    ELSE Nil

validateInputs(importPath, sel) ==
    IF TrimSpace(importPath) = <<>> THEN ErrEmptyImportPath
    ELSE IF Contains(importPath, <<".", ".">>) THEN ErrInvalidImportPath
    ELSE IF HasPrefix(importPath, <<"/">>) THEN ErrInvalidImportPath
    ELSE IF sel # <<>> /\ ~selectorRegex(sel) THEN ErrInvalidSelector
    ELSE Nil

Dot == <<".">>

isRemoteImportPath(importPath) ==
    IF importPath = Dot THEN FALSE
    ELSE LET idx == Index(importPath, "/")
             first == IF idx > 0 THEN SubSeq(importPath, 1, idx - 1) ELSE importPath
         IN Contains(first, <<".">>)

\* getPkgVersion without the special case of ".".
getPkgVersionDotAsLocal(importPath, version, runtimeVersion) ==
    LET trimmed == TrimSpace(version)
    IN IF ~isRemoteImportPath(importPath) THEN runtimeVersion
       ELSE trimmed

getPkgVersion(importPath, version, runtimeVersion) ==
    LET trimmed == TrimSpace(version)
    IN IF importPath = Dot THEN <<>>
       ELSE IF ~isRemoteImportPath(importPath) THEN runtimeVersion
       ELSE trimmed

\* ------------------------------------------------------------------------
\* cache.go: keys
\* ------------------------------------------------------------------------
\* getCacheKey that leaves the selector out of the digest.
getCacheKeyNoSel(importPath, version, sel) ==
    importPath \o <<NUL>> \o version \o <<NUL>>

\* The FNV-1a digest is represented by the byte stream that is hashed
\* (importPath, 0, version, 0, sel): digests are equal exactly when the
\* streams are (collisions are outside the model).
getCacheKey(importPath, version, sel) ==
    importPath \o <<NUL>> \o version \o <<NUL>> \o sel

RECURSIVE uniqKeys(_)
uniqKeys(keys) ==
    IF keys = <<>> THEN <<>>
    ELSE LET init == uniqKeys(SubSeq(keys, 1, Len(keys) - 1))
             key == keys[Len(keys)]
         IN IF key = <<>> \/ (\E i \in 1..Len(init) : init[i] = key)
            THEN init
            ELSE Append(init, key)

\* ------------------------------------------------------------------------
\* State
\* ------------------------------------------------------------------------
VARIABLES
    goVersion,        \* runtime.Version() of the running process
    proc,             \* number of process restarts so far
    cwd,              \* the current directory of the process
    cwdMod,           \* go.mod of the directory the first process runs in
    cacheDirOk,       \* whether the user cache directory can be created
    snapshot,         \* the cache.gob file on disk
    cacheOnce,        \* cacheOnce has fired
    globalCache,      \* globalCache: [isNil, m]
    cacheFilePath,    \* cacheFilePath: "" or "cache.gob"
    cachePersistent,  \* cachePersistent
    d,                \* the Godoc instance in use: goos, goarch, workdir, depCache
    loads,            \* number of Load calls made
    unit,             \* the import path and selector the caller works with
    last,             \* what the latest Load call did and returned
    expired,          \* a full time-to-live has passed since the cache was written to
    sym,              \* a SymbolDoc value a caller holds
    htmlCalls,        \* number of sym.HTML() calls made
    renders,          \* number of times a call of sym.HTML() rendered
    html,             \* what the latest sym.HTML() call returned
    dp,               \* a *doc.Package handed to the document builder
    pdoc,             \* the PackageDoc lists toPkgDoc built from dp
    index,            \* the symbol index buildSymbolIndex built from dp
    pc,               \* where every concurrent Load call stands
    loc,              \* the local variables and the result of every concurrent call
    cacheMu,          \* cacheMu: 0 when unlocked, else the call that holds it
    onceRunner,       \* the call running the body of cacheOnce.Do, else 0
    ctxErr,           \* ctx.Err() of the Godoc's context: "" while it is live
    dep               \* a Load that runs toolchain commands, step by step

\* The variables of the document builder and of a held SymbolDoc.
docVars == <<sym, htmlCalls, renders, html, dp, pdoc, index>>

\* The variables of concurrent Load calls.
concVars == <<pc, loc, cacheMu, onceRunner>>

\* The context of the caller and the Load that runs under it.
ctxVars == <<ctxErr, dep>>

vars == <<goVersion, proc, cwd, cwdMod, cacheDirOk, snapshot, cacheOnce, globalCache,
          cacheFilePath, cachePersistent, d, loads, unit, last, expired, docVars,
          concVars, ctxVars>>

\* ------------------------------------------------------------------------
\* The world outside the engine: toolchain versions, directories, modules
\* ------------------------------------------------------------------------
GoOld == <<"g", "1">>
GoNew == <<"g", "2">>
V1 == <<"1">>
V2 == <<"2">>
Latest == V1

Std == <<"f">>                  \* a standard-library package, like fmt
Loc == <<"m", "/", "p">>        \* a package of the main module m
Rem == <<"x", ".", "y">>        \* a remote module, like example.com/y
Rel == <<".", "/", "p">>        \* a relative path into the project

HostOS == "linux"
HostArch == "amd64"

\* The directory a dir argument denotes: "" and "." are the process's
\* current directory.
physical(dir) == IF dir \in {"", "."} THEN cwd ELSE dir

ProjectDirs == {"cwd", "w"}
tempDir(version) == IF version = V1 THEN "tmp1" ELSE "tmp2"

\* go.mod of a directory: whether it exists and at which version it
\* requires Rem (<<>>: not required).
GoMod(dir) ==
    CASE dir = "cwd" -> cwdMod
      [] dir = "w" -> [exists |-> TRUE, req |-> V1]
      [] dir = "tmp1" -> [exists |-> TRUE, req |-> V1]
      [] dir = "tmp2" -> [exists |-> TRUE, req |-> V2]
      [] OTHER -> [exists |-> FALSE, req |-> <<>>]

NoModule == <<>>
MainModule == <<[Path |-> <<"m">>, Version |-> <<>>, Main |-> TRUE]>>
DepModule(v) == <<[Path |-> Rem, Version |-> v, Main |-> FALSE]>>

\* What packages.Load finds for importPath in directory dir.
found(importPath, dir) ==
    LET gm == GoMod(dir)
    IN CASE importPath = Std ->
              [ok |-> TRUE, pkgPath |-> Std, module |-> NoModule,
               from |-> "goroot", modver |-> goVersion, embedded |-> FALSE]
         [] importPath = Dot /\ dir \in ProjectDirs ->
              [ok |-> TRUE, pkgPath |-> <<"m">>,
               module |-> IF gm.exists THEN MainModule ELSE NoModule,
               from |-> dir, modver |-> <<>>, embedded |-> FALSE]
         [] importPath = Rel /\ dir \in ProjectDirs ->
              [ok |-> TRUE, pkgPath |-> Loc,
               module |-> IF gm.exists THEN MainModule ELSE NoModule,
               from |-> dir, modver |-> <<>>, embedded |-> TRUE]
         [] importPath = Loc /\ dir \in ProjectDirs /\ gm.exists ->
              [ok |-> TRUE, pkgPath |-> Loc, module |-> MainModule,
               from |-> dir, modver |-> <<>>, embedded |-> TRUE]
         [] importPath = Rem /\ gm.exists /\ gm.req # <<>> ->
              [ok |-> TRUE, pkgPath |-> Rem, module |-> DepModule(gm.req),
               from |-> "modcache", modver |-> gm.req, embedded |-> FALSE]
         [] OTHER ->
              [ok |-> FALSE, pkgPath |-> <<>>, module |-> NoModule,
               from |-> "", modver |-> <<>>, embedded |-> FALSE]

\* The names in the symbol index of every package.
Symbols == {<<"a">>}

\* ------------------------------------------------------------------------
\* godoc.go: loadDocPkg
\* ------------------------------------------------------------------------
goosOf(dd) == IF dd.goos # "" THEN dd.goos ELSE HostOS
goarchOf(dd) == IF dd.goarch # "" THEN dd.goarch ELSE HostArch

\* typesOk: whether a load that asks for type information succeeds.
loadDocPkg(dd, importPath, dir, needTypes, typesOk) ==
    LET cfgDir == IF dir = "." /\ importPath # Dot /\ ~Contains(importPath, <<"/">>)
                  THEN "" ELSE dir
    IN With(found(importPath, physical(cfgDir)), LAMBDA f :
       IF ~f.ok \/ (needTypes /\ ~typesOk)
       THEN [err |-> "load failed", pkgPath |-> <<>>, module |-> NoModule, dir |-> cfgDir,
             dpkg |-> [from |-> "", modver |-> <<>>, goos |-> "", goarch |-> "",
                       typed |-> FALSE, embedded |-> FALSE]]
       ELSE [err |-> "", pkgPath |-> f.pkgPath, module |-> f.module, dir |-> cfgDir,
             dpkg |-> [from |-> f.from, modver |-> f.modver, goos |-> goosOf(dd),
                       goarch |-> goarchOf(dd), typed |-> needTypes,
                       embedded |-> f.embedded]])

\* A check that asks for type information for no package.
pkgRequiresTypesInfoNever(dpkg) == FALSE

\* embedded: some interface type of the package has an entry without names
\* in its method list.
pkgRequiresTypesInfo(dpkg) == dpkg.embedded

toPkgDoc(dpkg, pkgPath) ==
    [ImportPath |-> pkgPath, from |-> dpkg.from, modver |-> dpkg.modver,
     goos |-> dpkg.goos, goarch |-> dpkg.goarch, typed |-> dpkg.typed]

\* A symbol index that also holds the name z.
buildSymbolIndexWithZ(dpkg, pkgPath) ==
    [name \in Symbols \cup {<<"z">>} |->
        [ImportPath |-> pkgPath, Name |-> name, from |-> dpkg.from,
         modver |-> dpkg.modver, goos |-> dpkg.goos, goarch |-> dpkg.goarch]]

buildSymbolIndex(dpkg, pkgPath) ==
    [name \in Symbols |->
        [ImportPath |-> pkgPath, Name |-> name, from |-> dpkg.from,
         modver |-> dpkg.modver, goos |-> dpkg.goos, goarch |-> dpkg.goarch]]

\* ------------------------------------------------------------------------
\* cache.go: deriveCacheMetadata
\* ------------------------------------------------------------------------
deriveCacheMetadata(module, resolvedVersion) ==
    LET resolved == TrimSpace(resolvedVersion)
    IN IF module = NoModule \/ module[1].Path = <<>>
       THEN [GoVersion |-> goVersion, ModuleVersion |-> <<>>]
       ELSE IF ~module[1].Main
       THEN [GoVersion |-> <<>>,
             ModuleVersion |-> IF TrimSpace(module[1].Version) = <<>>
                               THEN resolved ELSE TrimSpace(module[1].Version)]
       ELSE [GoVersion |-> <<>>, ModuleVersion |-> resolved]

\* buildDoc's adjustment of the metadata of a remote unit.
remoteMeta(importPath, meta, version) ==
    IF isRemoteImportPath(importPath)
    THEN LET mv == IF meta.ModuleVersion = <<>> /\ version # <<>>
                   THEN version ELSE meta.ModuleVersion
         IN [GoVersion |-> IF mv # <<>> THEN <<>> ELSE meta.GoVersion,
             ModuleVersion |-> mv]
    ELSE meta

getVersionFromMod(workdir, importPath) ==
    LET gm == GoMod(physical(workdir))
    IN IF gm.exists /\ importPath = Rem THEN TrimSpace(gm.req) ELSE <<>>

\* ------------------------------------------------------------------------
\* godoc.go: checkModuleDep
\* ------------------------------------------------------------------------
\* `go list target` run in the working directory: it succeeds for a package
\* that resolves there, and fails for the path@version form.
goList(workdir, importPath, version) ==
    version = <<>> /\ found(importPath, physical(workdir)).ok

\* `go get target` in a fresh module: only the remote module can be fetched.
goGet(importPath) == importPath = Rem

\* checkModuleDep that runs the probe without looking at depCache.
checkModuleDepAlwaysProbes(dd, importPath, version, sandbox) ==
    LET gm == GoMod(physical(dd.workdir))
        inMod == gm.exists /\ importPath = Rem /\ gm.req # <<>>
                 /\ (version = <<>> \/ gm.req = version)
        targetKey == IF version # <<>> THEN importPath \o <<"@">> \o version
                     ELSE importPath
        cached == FALSE
        listed == ~cached
        listOk == listed /\ goList(dd.workdir, importPath, version)
        depCache2 == IF listed
                     THEN [k \in DOMAIN dd.depCache \cup {targetKey} |->
                              IF k = targetKey THEN listOk ELSE dd.depCache[k]]
                     ELSE dd.depCache
        useWorkdir == IF cached THEN dd.depCache[targetKey] ELSE listOk
        nList == IF listed THEN 1 ELSE 0
        resolved == IF version # <<>> THEN version ELSE Latest
    IN IF inMod
       THEN [dir |-> dd.workdir, cleanup |-> FALSE, err |-> "", depCache |-> dd.depCache,
             cmds |-> 0, created |-> 0, removed |-> 0]
       ELSE IF useWorkdir
       THEN [dir |-> dd.workdir, cleanup |-> FALSE, err |-> "", depCache |-> depCache2,
             cmds |-> nList, created |-> 0, removed |-> 0]
       ELSE IF sandbox = "mkfail"
       THEN [dir |-> "", cleanup |-> FALSE, err |-> "mkdirtemp failed", depCache |-> depCache2,
             cmds |-> nList, created |-> 0, removed |-> 0]
       ELSE IF sandbox = "initfail"
       THEN [dir |-> "", cleanup |-> FALSE, err |-> "go mod init failed", depCache |-> depCache2,
             cmds |-> nList + 1, created |-> 1, removed |-> 1]
       ELSE IF sandbox = "getfail" \/ ~goGet(importPath)
       THEN [dir |-> "", cleanup |-> FALSE, err |-> "go get failed", depCache |-> depCache2,
             cmds |-> nList + 2, created |-> 1, removed |-> 1]
       ELSE [dir |-> tempDir(resolved), cleanup |-> TRUE, err |-> "", depCache |-> depCache2,
             cmds |-> nList + 2, created |-> 1, removed |-> 0]

\* sandbox: how far the sandbox bootstrap gets ("ok", "mkfail", "initfail",
\* "getfail"). The result names the directory, whether a cleanup function
\* is returned, the updated depCache, the commands run and the temporary
\* directories created and removed inside the call.
checkModuleDep(dd, importPath, version, sandbox) ==
    LET gm == GoMod(physical(dd.workdir))
        inMod == gm.exists /\ importPath = Rem /\ gm.req # <<>>
                 /\ (version = <<>> \/ gm.req = version)
        targetKey == IF version # <<>> THEN importPath \o <<"@">> \o version
                     ELSE importPath
        cached == targetKey \in DOMAIN dd.depCache
        listed == ~cached
        listOk == listed /\ goList(dd.workdir, importPath, version)
        depCache2 == IF listed
                     THEN [k \in DOMAIN dd.depCache \cup {targetKey} |->
                              IF k = targetKey THEN listOk ELSE dd.depCache[k]]
                     ELSE dd.depCache
        useWorkdir == IF cached THEN dd.depCache[targetKey] ELSE listOk
        nList == IF listed THEN 1 ELSE 0
        resolved == IF version # <<>> THEN version ELSE Latest
    IN IF inMod
       THEN [dir |-> dd.workdir, cleanup |-> FALSE, err |-> "", depCache |-> dd.depCache,
             cmds |-> 0, created |-> 0, removed |-> 0]
       ELSE IF useWorkdir
       THEN [dir |-> dd.workdir, cleanup |-> FALSE, err |-> "", depCache |-> depCache2,
             cmds |-> nList, created |-> 0, removed |-> 0]
       ELSE IF sandbox = "mkfail"
       THEN [dir |-> "", cleanup |-> FALSE, err |-> "mkdirtemp failed", depCache |-> depCache2,
             cmds |-> nList, created |-> 0, removed |-> 0]
       ELSE IF sandbox = "initfail"
       THEN [dir |-> "", cleanup |-> FALSE, err |-> "go mod init failed", depCache |-> depCache2,
             cmds |-> nList + 1, created |-> 1, removed |-> 1]
       ELSE IF sandbox = "getfail" \/ ~goGet(importPath)
       THEN [dir |-> "", cleanup |-> FALSE, err |-> "go get failed", depCache |-> depCache2,
             cmds |-> nList + 2, created |-> 1, removed |-> 1]
       ELSE [dir |-> tempDir(resolved), cleanup |-> TRUE, err |-> "", depCache |-> depCache2,
             cmds |-> nList + 2, created |-> 1, removed |-> 0]

\* ------------------------------------------------------------------------
\* godoc.go: buildDoc
\* ------------------------------------------------------------------------
NoPkgDoc == [ImportPath |-> <<>>, from |-> "", modver |-> <<>>, goos |-> "",
             goarch |-> "", typed |-> FALSE]
NoSymbols == <<>>
NoMeta == [GoVersion |-> <<>>, ModuleVersion |-> <<>>]

\* A buildDoc that never defers the cleanup.
deferCleanupNever(dd, cd) == FALSE

\* Whether buildDoc defers the cleanup checkDep returned.
deferCleanup(dd, cd) == cd.cleanup /\ cd.dir # dd.workdir

ErrSetup == "local load failed and module dependency setup failed"

\* The combined error that keeps only the cause of the dependency setup.
errSetupDropsLocal(err, err2) == [msg |-> ErrSetup, wraps |-> {err2}]

\* The error of a failed direct load followed by a failed dependency
\* setup; wraps are the errors Unwrap yields.
errSetup(err, err2) == [msg |-> ErrSetup, wraps |-> {err, err2}]

\* env: the outcomes of the external steps of this call (typesOk, sandbox,
\* save). wraps are the errors the returned error wraps, loadErr and depErr
\* the errors of the first loadPkg call and of checkDep, depDir the
\* directory checkDep returned. firstDir is the dir argument of the first loadPkg call.
buildDoc(dd, importPath, version0, needSymbols, env) ==
    LET version == TrimSpace(version0)
        needTypes == needSymbols
    IN With(loadDocPkg(dd, importPath, "", needTypes, env.typesOk), LAMBDA r1 :
       IF r1.err = ""
       THEN LET reload == ~needTypes /\ pkgRequiresTypesInfo(r1.dpkg)
            IN With(LET rT == loadDocPkg(dd, importPath, "", TRUE, env.typesOk)
                    IN IF reload /\ rT.err = "" THEN rT ELSE r1, LAMBDA r :
               [err |-> "", pkgDoc |-> toPkgDoc(r.dpkg, r.pkgPath),
                symbols |-> IF needSymbols THEN buildSymbolIndex(r.dpkg, r.pkgPath)
                            ELSE NoSymbols,
                pkgPath |-> r.pkgPath, actualVersion |-> version,
                meta |-> remoteMeta(importPath,
                                    deriveCacheMetadata(r.module, version), version),
                depCache |-> dd.depCache,
                nLoads |-> IF reload THEN 2 ELSE 1, firstDir |-> r1.dir, cmds |-> 0,
                created |-> 0, removed |-> 0, reloaded |-> reload,
                wraps |-> {}, loadErr |-> "", depErr |-> "",
                depDir |-> "none"])
       ELSE With(checkModuleDep(dd, importPath, version, env.sandbox), LAMBDA cd :
            IF cd.err # ""
            THEN [err |-> errSetup(r1.err, cd.err).msg,
                  wraps |-> errSetup(r1.err, cd.err).wraps,
                  loadErr |-> r1.err, depErr |-> cd.err, depDir |-> cd.dir,
                  pkgDoc |-> NoPkgDoc, symbols |-> NoSymbols, pkgPath |-> <<>>,
                  actualVersion |-> <<>>, meta |-> NoMeta, depCache |-> cd.depCache,
                  nLoads |-> 1, firstDir |-> r1.dir, cmds |-> cd.cmds,
                  created |-> cd.created, removed |-> cd.removed, reloaded |-> FALSE]
            ELSE With(loadDocPkg(dd, importPath, cd.dir, TRUE, env.typesOk), LAMBDA r3 :
                 With(getVersionFromMod(cd.dir, importPath), LAMBDA fromMod :
                 LET deferred == deferCleanup(dd, cd)
                     removed == cd.removed + (IF deferred THEN 1 ELSE 0)
                     actualVersion == IF fromMod = <<>> THEN version ELSE fromMod
                 IN IF r3.err # ""
                    THEN [err |-> "load with module dependency failed",
                          wraps |-> {r3.err}, loadErr |-> r1.err, depErr |-> "",
                          depDir |-> cd.dir,
                          pkgDoc |-> NoPkgDoc, symbols |-> NoSymbols, pkgPath |-> <<>>,
                          actualVersion |-> <<>>, meta |-> NoMeta,
                          depCache |-> cd.depCache, nLoads |-> 2, firstDir |-> r1.dir,
                          cmds |-> cd.cmds, created |-> cd.created, removed |-> removed,
                          reloaded |-> FALSE]
                    ELSE [err |-> "", wraps |-> {}, loadErr |-> r1.err, depErr |-> "",
                          depDir |-> cd.dir,
                          pkgDoc |-> toPkgDoc(r3.dpkg, r3.pkgPath),
                          symbols |-> IF needSymbols
                                      THEN buildSymbolIndex(r3.dpkg, r3.pkgPath)
                                      ELSE NoSymbols,
                          pkgPath |-> r3.pkgPath, actualVersion |-> actualVersion,
                          meta |-> remoteMeta(importPath,
                                              deriveCacheMetadata(r3.module, actualVersion),
                                              actualVersion),
                          depCache |-> cd.depCache, nLoads |-> 2, firstDir |-> r1.dir,
                          cmds |-> cd.cmds, created |-> cd.created, removed |-> removed,
                          reloaded |-> FALSE]))))

\* ------------------------------------------------------------------------
\* cache.go: getCache, getValidCacheEntry, setCacheEntry
\* ------------------------------------------------------------------------
EmptyMap == <<>>
NilCache == [isNil |-> TRUE, m |-> EmptyMap]
NoEntry == [Package |-> <<>>, Symbol |-> <<>>, GoVersion |-> <<>>, ModuleVersion |-> <<>>]

\* The package-level variables of the cache as one record.
globals == [once |-> cacheOnce, cache |-> globalCache, path |-> cacheFilePath,
            persistent |-> cachePersistent]

\* loadCacheFromFile: the entries of the snapshot, or why it cannot be read.
loadCacheFromFile ==
    CASE snapshot.state = "absent" -> [err |-> "ErrNotExist", m |-> EmptyMap]
      [] snapshot.state = "corrupt" -> [err |-> "decode error", m |-> EmptyMap]
      [] OTHER -> [err |-> "", m |-> snapshot.m]

\* The error of getCacheDir, as getCache returns it.
ErrCacheDir == "could not create cache directory"

\* getCache that keeps persistence on whatever loadCacheFromFile returns.
getCacheKeepPersistence(g) ==
    IF g.once
    THEN [g |-> g, cache |-> g.cache, err |-> ""]
    ELSE IF ~cacheDirOk
    THEN [g |-> [g EXCEPT !.once = TRUE], cache |-> NilCache,
          err |-> ErrCacheDir]
    ELSE LET ld == loadCacheFromFile
             c == [isNil |-> FALSE, m |-> ld.m]
         IN [g |-> [once |-> TRUE, cache |-> c, path |-> "cache.gob",
                    persistent |-> TRUE],
             cache |-> c, err |-> ""]

\* Returns the globals after the call, the cache pointer and the error.
\* cacheInitErr is a local of the call: only the call that runs the
\* cacheOnce body can return it.
getCache(g) ==
    IF g.once
    THEN [g |-> g, cache |-> g.cache, err |-> ""]
    ELSE IF ~cacheDirOk
    THEN [g |-> [g EXCEPT !.once = TRUE], cache |-> NilCache,
          err |-> ErrCacheDir]
    ELSE LET ld == loadCacheFromFile
             keep == ld.err \in {"", "ErrNotExist"}
             c == [isNil |-> FALSE, m |-> ld.m]
         IN [g |-> [once |-> TRUE, cache |-> c,
                    path |-> IF keep THEN "cache.gob" ELSE "",
                    persistent |-> keep],
             cache |-> c, err |-> ""]

getValidCacheEntry(cache, key) ==
    IF cache.isNil \/ key = <<>> THEN [ok |-> FALSE, entry |-> NoEntry]
    ELSE IF key \in DOMAIN cache.m THEN [ok |-> TRUE, entry |-> cache.m[key]]
    ELSE [ok |-> FALSE, entry |-> NoEntry]

\* fastcache.Cache.Set
cacheSet(m, key, entry) ==
    [k \in DOMAIN m \cup {key} |-> IF k = key THEN entry ELSE m[k]]

RECURSIVE setAll(_, _, _)
setAll(m, entry, keys) ==
    IF keys = <<>> THEN m
    ELSE setAll(IF Head(keys) = <<>> THEN m ELSE cacheSet(m, Head(keys), entry),
                entry, Tail(keys))

ErrPermission == "cache persistence permission error: ErrPermission"
ErrWrite == "write error"

\* setCacheEntry that writes the snapshot first and keeps the keys out of
\* memory when the write fails.
setCacheEntrySaveFirst(g, cache, entry, keys, save) ==
    IF cache.isNil
    THEN [panic |-> TRUE, cache |-> cache, err |-> "", snapshot |-> snapshot, saves |-> 0]
    ELSE LET c == [isNil |-> FALSE, m |-> setAll(cache.m, entry, keys)]
         IN IF ~g.persistent \/ g.path = ""
            THEN [panic |-> FALSE, cache |-> c, err |-> "", snapshot |-> snapshot,
                  saves |-> 0]
            ELSE IF save = "ok"
            THEN [panic |-> FALSE, cache |-> c, err |-> "",
                  snapshot |-> [state |-> "valid", m |-> c.m], saves |-> 1]
            ELSE [panic |-> FALSE, cache |-> cache,
                  err |-> IF save = "perm" THEN ErrPermission ELSE ErrWrite,
                  snapshot |-> snapshot, saves |-> 1]

\* save: the outcome of SaveToFile ("ok", "perm", "io"). Setting a key of
\* a nil cache dereferences a nil pointer.
setCacheEntry(g, cache, entry, keys, save) ==
    IF cache.isNil
    THEN [panic |-> TRUE, cache |-> cache, err |-> "", snapshot |-> snapshot, saves |-> 0]
    ELSE LET c == [isNil |-> FALSE, m |-> setAll(cache.m, entry, keys)]
         IN IF ~g.persistent \/ g.path = ""
            THEN [panic |-> FALSE, cache |-> c, err |-> "", snapshot |-> snapshot,
                  saves |-> 0]
            ELSE IF save = "ok"
            THEN [panic |-> FALSE, cache |-> c, err |-> "",
                  snapshot |-> [state |-> "valid", m |-> c.m], saves |-> 1]
            ELSE [panic |-> FALSE, cache |-> c,
                  err |-> IF save = "perm" THEN ErrPermission ELSE ErrWrite,
                  snapshot |-> snapshot, saves |-> 1]

\* ------------------------------------------------------------------------
\* godoc.go: getOrLoadPkg, getOrLoadSymbol, Load
\* ------------------------------------------------------------------------
ErrSelectorNotFound == "selector not found"

\* What a call did and returned: the result, the package-level variables,
\* snapshot file and depCache it leaves behind, and what it touched on the
\* way (getCache calls, cache reads, loadPkg calls, external commands,
\* snapshot writes, keys and entry written, sandboxes created and removed).
BaseCall(dd, g) ==
    [status |-> "ok", err |-> "", res |-> <<>>, pkgPath |-> <<>>, hit |-> FALSE,
     g |-> g, snapshot |-> snapshot, depCache |-> dd.depCache,
     getCacheCalls |-> 0, gets |-> 0, nLoads |-> 0, firstDir |-> "none", cmds |-> 0,
     saves |-> 0, keys |-> <<>>, entry |-> NoEntry, created |-> 0, removed |-> 0,
     reloaded |-> FALSE, backfill |-> FALSE, saveRes |-> "none",
     found |-> FALSE, foundEntry |-> NoEntry, actualVersion |-> <<>>,
     built |-> FALSE, wraps |-> {}, loadErr |-> "", depErr |-> "", depDir |-> "none"]

\* A freshness test that ignores the recorded toolchain version.
isFreshAnyToolchain(importPath, payload, entry, expected) ==
    payload # <<>>

\* The freshness test of a cache hit; payload is the entry's Package or
\* Symbol pointer.
isFresh(importPath, payload, entry, expected) ==
    /\ payload # <<>>
    /\ \/ isRemoteImportPath(importPath)
       \/ entry.GoVersion = goVersion
       \/ (entry.GoVersion = <<>> /\ expected = goVersion)

\* Only the requested key.
missKeysRequestedOnly(importPath, key, sel, actualVersion) ==
    <<key>>

\* The keys handed to setCacheEntry on a miss.
missKeys(importPath, key, sel, actualVersion) ==
    uniqKeys(<<key, getCacheKey(importPath, <<>>, sel)>>)
        \o (IF actualVersion # <<>>
            THEN <<getCacheKey(importPath, actualVersion, sel)>> ELSE <<>>)

getOrLoadPkg(dd, g0, importPath, version, env) ==
    With(getCache(g0), LAMBDA gc :
    IF gc.err # ""
    THEN [BaseCall(dd, gc.g) EXCEPT !.getCacheCalls = 1, !.status = "err", !.err = gc.err]
    ELSE
    With(getPkgVersion(importPath, version, goVersion), LAMBDA expected :
    With(getCacheKey(importPath, expected, <<>>), LAMBDA key :
    With(getValidCacheEntry(gc.cache, key), LAMBDA got :
    With([BaseCall(dd, gc.g) EXCEPT !.getCacheCalls = 1,
                                    !.gets = IF gc.cache.isNil THEN 0 ELSE 1,
                                    !.found = got.ok, !.foundEntry = got.entry],
         LAMBDA base2 :
    IF got.ok /\ isFresh(importPath, got.entry.Package, got.entry, expected)
    THEN LET entry == got.entry
             backfill == ~isRemoteImportPath(importPath) /\ entry.GoVersion = <<>>
             c2 == IF backfill
                   THEN [isNil |-> FALSE,
                         m |-> cacheSet(gc.cache.m, key,
                                        [entry EXCEPT !.GoVersion = goVersion])]
                   ELSE gc.cache
         IN [base2 EXCEPT !.res = entry.Package,
                          !.pkgPath = entry.Package[1].ImportPath,
                          !.hit = TRUE, !.backfill = backfill,
                          !.g = [gc.g EXCEPT !.cache = c2]]
    ELSE
    With(buildDoc(dd, importPath, version, FALSE, env), LAMBDA b :
    With([base2 EXCEPT !.depCache = b.depCache, !.nLoads = b.nLoads,
                       !.firstDir = b.firstDir, !.cmds = b.cmds,
                       !.created = b.created, !.removed = b.removed,
                       !.reloaded = b.reloaded, !.actualVersion = b.actualVersion,
                       !.built = (b.err = ""), !.wraps = b.wraps,
                       !.loadErr = b.loadErr, !.depErr = b.depErr,
                       !.depDir = b.depDir],
         LAMBDA base3 :
          IF b.err # ""
          THEN [base3 EXCEPT !.status = "err", !.err = b.err]
          ELSE
          With([Package |-> <<b.pkgDoc>>, Symbol |-> <<>>,
                GoVersion |-> b.meta.GoVersion,
                ModuleVersion |-> b.meta.ModuleVersion], LAMBDA entry2 :
          With(missKeys(importPath, key, <<>>, b.actualVersion), LAMBDA keys :
          With(setCacheEntry(gc.g, gc.cache, entry2, keys, env.save), LAMBDA w :
          With([base3 EXCEPT !.g = [gc.g EXCEPT !.cache = w.cache],
                             !.snapshot = w.snapshot, !.saves = w.saves,
                             !.saveRes = IF w.saves > 0 THEN env.save ELSE "none",
                             !.keys = keys, !.entry = entry2], LAMBDA base4 :
             IF w.panic THEN [base4 EXCEPT !.status = "panic", !.err = "nil cache"]
             ELSE IF w.err # "" THEN [base4 EXCEPT !.status = "err", !.err = w.err]
             ELSE [base4 EXCEPT !.res = <<b.pkgDoc>>, !.pkgPath = b.pkgPath])))))))))))

getOrLoadSymbol(dd, g0, importPath, sel, version, env) ==
    With(getCache(g0), LAMBDA gc :
    IF gc.err # ""
    THEN [BaseCall(dd, gc.g) EXCEPT !.getCacheCalls = 1, !.status = "err", !.err = gc.err]
    ELSE
    With(getPkgVersion(importPath, version, goVersion), LAMBDA expected :
    With(getCacheKey(importPath, expected, sel), LAMBDA key :
    With(getValidCacheEntry(gc.cache, key), LAMBDA got :
    With([BaseCall(dd, gc.g) EXCEPT !.getCacheCalls = 1,
                                    !.gets = IF gc.cache.isNil THEN 0 ELSE 1,
                                    !.found = got.ok, !.foundEntry = got.entry],
         LAMBDA base2 :
    IF got.ok /\ isFresh(importPath, got.entry.Symbol, got.entry, expected)
    THEN LET entry == got.entry
             backfill == ~isRemoteImportPath(importPath) /\ entry.GoVersion = <<>>
             c2 == IF backfill
                   THEN [isNil |-> FALSE,
                         m |-> cacheSet(gc.cache.m, key,
                                        [entry EXCEPT !.GoVersion = goVersion])]
                   ELSE gc.cache
         IN [base2 EXCEPT !.res = entry.Symbol,
                          !.pkgPath = entry.Symbol[1].ImportPath,
                          !.hit = TRUE, !.backfill = backfill,
                          !.g = [gc.g EXCEPT !.cache = c2]]
    ELSE
    With(buildDoc(dd, importPath, version, TRUE, env), LAMBDA b :
    With([base2 EXCEPT !.depCache = b.depCache, !.nLoads = b.nLoads,
                       !.firstDir = b.firstDir, !.cmds = b.cmds,
                       !.created = b.created, !.removed = b.removed,
                       !.reloaded = b.reloaded, !.actualVersion = b.actualVersion,
                       !.built = (b.err = ""), !.wraps = b.wraps,
                       !.loadErr = b.loadErr, !.depErr = b.depErr,
                       !.depDir = b.depDir],
         LAMBDA base3 :
          IF b.err # ""
          THEN [base3 EXCEPT !.status = "err", !.err = b.err]
          ELSE IF sel \notin DOMAIN b.symbols
          THEN [base3 EXCEPT !.status = "err", !.err = ErrSelectorNotFound,
                             !.pkgPath = b.pkgPath]
          ELSE
          With([Package |-> <<>>, Symbol |-> <<b.symbols[sel]>>,
                GoVersion |-> b.meta.GoVersion,
                ModuleVersion |-> b.meta.ModuleVersion], LAMBDA entry2 :
          With(missKeys(importPath, key, sel, b.actualVersion), LAMBDA keys :
          With(setCacheEntry(gc.g, gc.cache, entry2, keys, env.save), LAMBDA w :
          With([base3 EXCEPT !.g = [gc.g EXCEPT !.cache = w.cache],
                             !.snapshot = w.snapshot, !.saves = w.saves,
                             !.saveRes = IF w.saves > 0 THEN env.save ELSE "none",
                             !.keys = keys, !.entry = entry2], LAMBDA base4 :
             IF w.panic THEN [base4 EXCEPT !.status = "panic", !.err = "nil cache"]
             ELSE IF w.err # "" THEN [base4 EXCEPT !.status = "err", !.err = w.err]
             ELSE [base4 EXCEPT !.res = <<b.symbols[sel]>>, !.pkgPath = b.pkgPath])))))))))))

\* A Load that empties the cache when the input is rejected.
LoadDropsCacheOnInputError(dd, g0, importPath, sel, version, env) ==
    With(validateInputs(importPath, sel), LAMBDA verr :
    IF verr # Nil
    THEN [BaseCall(dd, [g0 EXCEPT !.cache = [g0.cache EXCEPT !.m = EmptyMap]])
          EXCEPT !.status = "err", !.err = verr]
    ELSE IF sel = <<>>
    THEN getOrLoadPkg(dd, g0, importPath, version, env)
    ELSE With(getOrLoadSymbol(dd, g0, importPath, sel, version, env), LAMBDA c :
         IF c.status = "ok" /\ c.res[1].ImportPath = <<>>
         THEN [c EXCEPT !.res = <<[c.res[1] EXCEPT !.ImportPath = c.pkgPath]>>]
         ELSE c))

Load(dd, g0, importPath, sel, version, env) ==
    With(validateInputs(importPath, sel), LAMBDA verr :
    IF verr # Nil
    THEN [BaseCall(dd, g0) EXCEPT !.status = "err", !.err = verr]
    ELSE IF sel = <<>>
    THEN getOrLoadPkg(dd, g0, importPath, version, env)
    ELSE With(getOrLoadSymbol(dd, g0, importPath, sel, version, env), LAMBDA c :
         IF c.status = "ok" /\ c.res[1].ImportPath = <<>>
         THEN [c EXCEPT !.res = <<[c.res[1] EXCEPT !.ImportPath = c.pkgPath]>>]
         ELSE c))

\* ------------------------------------------------------------------------
\* options.go, godoc.go: New
\* ------------------------------------------------------------------------
New(goos, goarch, workdir) ==
    [goos |-> goos, goarch |-> goarch, workdir |-> workdir, depCache |-> EmptyMap]

\* ------------------------------------------------------------------------
\* Inputs
\* ------------------------------------------------------------------------
Units == {Dot, Std, Loc, Rem, Rel}
Sels == {<<>>, <<"a">>, <<"z">>}
Versions == {<<>>, V1}
Options == {<<"", "", ".">>, <<"windows", "amd64", ".">>, <<"", "", "w">>}
GoMods == {[exists |-> FALSE, req |-> <<>>], [exists |-> TRUE, req |-> V2]}

AllOk == [typesOk |-> TRUE, sandbox |-> "ok", save |-> "ok"]

\* The outcomes of the external steps that a call with these arguments can
\* meet: a step the call does not reach has no outcome to choose.
Envs(dd, g0, importPath, sel, version) ==
    LET reached(t) ==
            With(Load(dd, g0, importPath, sel, version,
                      [AllOk EXCEPT !.typesOk = t]), LAMBDA c :
               {[typesOk |-> t, sandbox |-> "ok", save |-> sv] :
                   sv \in IF c.saves > 0 THEN {"ok", "perm", "io"} ELSE {"ok"}}
               \cup {[typesOk |-> t, sandbox |-> sb, save |-> "ok"] :
                        sb \in IF c.created > 0
                               THEN {"mkfail", "initfail", "getfail"} ELSE {}}
               \cup (IF t /\ c.nLoads > 0
                     THEN {[AllOk EXCEPT !.typesOk = FALSE]}
                     ELSE {}))
    IN With(reached(TRUE), LAMBDA envs :
          IF [AllOk EXCEPT !.typesOk = FALSE] \in envs
          THEN envs \cup reached(FALSE) ELSE envs)

NoCall ==
    [status |-> "none", err |-> "", res |-> <<>>, pkgPath |-> <<>>, hit |-> FALSE,
     getCacheCalls |-> 0, gets |-> 0, nLoads |-> 0, firstDir |-> "none", cmds |-> 0,
     saves |-> 0, keys |-> <<>>, entry |-> NoEntry, created |-> 0, removed |-> 0,
     reloaded |-> FALSE, backfill |-> FALSE, saveRes |-> "none",
     found |-> FALSE, foundEntry |-> NoEntry, actualVersion |-> <<>>,
     built |-> FALSE, wraps |-> {}, loadErr |-> "", depErr |-> "", depDir |-> "none",
     importPath |-> <<>>, sel |-> <<>>, version |-> <<>>,
     goVersion |-> <<>>, proc |-> 0, goos |-> "", goarch |-> "", workdir |-> "",
     onceBefore |-> FALSE, expired |-> FALSE, depBefore |-> EmptyMap]

\* The record of a call kept in last.
Record(c, dd, importPath, sel, version) ==
    [status |-> c.status, err |-> c.err, res |-> c.res, pkgPath |-> c.pkgPath,
     hit |-> c.hit, getCacheCalls |-> c.getCacheCalls, gets |-> c.gets,
     nLoads |-> c.nLoads, firstDir |-> c.firstDir, cmds |-> c.cmds, saves |-> c.saves,
     keys |-> c.keys, entry |-> c.entry, created |-> c.created, removed |-> c.removed,
     reloaded |-> c.reloaded, backfill |-> c.backfill, saveRes |-> c.saveRes,
     found |-> c.found, foundEntry |-> c.foundEntry, actualVersion |-> c.actualVersion,
     built |-> c.built, wraps |-> c.wraps, loadErr |-> c.loadErr, depErr |-> c.depErr,
     depDir |-> c.depDir,
     importPath |-> importPath, sel |-> sel, version |-> version,
     goVersion |-> goVersion, proc |-> proc, goos |-> dd.goos, goarch |-> dd.goarch,
     workdir |-> dd.workdir, onceBefore |-> cacheOnce, expired |-> expired,
     depBefore |-> dd.depCache]

Workers == 1..MaxWorkers

\* The locals of a call that has not come to anything yet.
NoLocals == [status |-> "", err |-> "", res |-> <<>>, hit |-> FALSE, nLoads |-> 0,
             keys |-> <<>>, entry |-> NoEntry]

\* No error.
NoError == [msg |-> <<>>, wraps |-> {}]

\* The Load under a context before its first step. failed holds, for every
\* command that failed, its arguments, the error of cmd.Run, ctx.Err() when
\* runGo read it and the error runGo returned.
NoDep == [pc |-> "idle", dir |-> "", loadErr |-> "", failed |-> {}, status |-> "",
          err |-> NoError, res |-> <<>>]

\* No goroutine calls Load.
NoWorkers ==
    /\ pc = [w \in Workers |-> "idle"]
    /\ loc = [w \in Workers |-> NoLocals]
    /\ cacheMu = 0
    /\ onceRunner = 0
    /\ ctxErr = ""
    /\ dep = NoDep

\* No SymbolDoc is held and the document builder has not run.
NoDocs ==
    /\ sym = <<>>
    /\ htmlCalls = 0
    /\ renders = 0
    /\ html = <<>>
    /\ dp = <<>>
    /\ pdoc = <<>>
    /\ index = <<>>

\* ------------------------------------------------------------------------
\* Actions
\* ------------------------------------------------------------------------
Init ==
    /\ goVersion = GoOld
    /\ proc = 0
    /\ cwd = "cwd"
    /\ cwdMod \in GoMods
    /\ cacheDirOk \in BOOLEAN
    /\ snapshot \in {[state |-> "absent", m |-> EmptyMap],
                     [state |-> "corrupt", m |-> EmptyMap]}
    /\ (~cacheDirOk => snapshot.state = "absent")
    /\ cacheOnce = FALSE
    /\ globalCache = NilCache
    /\ cacheFilePath = ""
    /\ cachePersistent = FALSE
    /\ d = New("", "", ".")
    /\ loads = 0
    /\ unit \in [importPath : Units, sel : Sels]
    /\ last = NoCall
    /\ expired = FALSE
    /\ NoDocs
    /\ NoWorkers

\* One call of dd.Load(importPath, sel, version), from entry to return; dd
\* is the Godoc instance in use afterwards.
DoLoad(dd, importPath, sel, version, env) ==
    \E c \in {Load(dd, globals, importPath, sel, version, env)} :
       /\ cacheOnce' = c.g.once
       /\ globalCache' = c.g.cache
       /\ cacheFilePath' = c.g.path
       /\ cachePersistent' = c.g.persistent
       /\ snapshot' = c.snapshot
       /\ d' = [dd EXCEPT !.depCache = c.depCache]
       /\ last' = Record(c, dd, importPath, sel, version)
       /\ loads' = loads + 1
       /\ expired' = (expired /\ c.keys = <<>> /\ ~c.backfill)
       /\ UNCHANGED <<goVersion, proc, cwd, cwdMod, cacheDirOk, docVars, concVars, ctxVars>>

\* The caller calls Load again on the Godoc it already has.
LoadCall ==
    /\ loads < MaxLoads
    /\ \E version \in Versions :
          \E env \in Envs(d, globals, unit.importPath, unit.sel, version) :
             /\ DoLoad(d, unit.importPath, unit.sel, version, env)
             /\ UNCHANGED unit

\* The caller makes another Godoc with New(opts...) and calls Load on it.
NewLoad ==
    /\ loads < MaxLoads
    /\ \E o \in Options, version \in Versions :
          \E dd \in {New(o[1], o[2], o[3])} \ {d} :
             \E env \in Envs(dd, globals, unit.importPath, unit.sel, version) :
                /\ DoLoad(dd, unit.importPath, unit.sel, version, env)
                /\ UNCHANGED unit

\* The process exits after at least one Load and a new one starts, possibly
\* built with a newer toolchain: the package-level variables are fresh, the
\* snapshot file stays.
Restart ==
    /\ loads < MaxLoads
    /\ proc < MaxRestarts
    /\ last.status # "none"
    /\ last.proc = proc
    /\ proc' = proc + 1
    /\ goVersion' \in {goVersion, GoNew}
    /\ cacheOnce' = FALSE
    /\ globalCache' = NilCache
    /\ cacheFilePath' = ""
    /\ cachePersistent' = FALSE
    /\ d' = New("", "", ".")
    /\ UNCHANGED <<cwd, cwdMod, cacheDirOk, snapshot, loads, unit, last, expired, docVars,
                   concVars, ctxVars>>

Next == LoadCall \/ NewLoad \/ Restart

Spec == Init /\ [][Next]_vars

\* The process exits and the next one is started in another project
\* directory; the cache directory of the user, and the snapshot in it, are
\* the same.
RestartElsewhere ==
    /\ loads < MaxLoads
    /\ proc < MaxRestarts
    /\ last.status # "none"
    /\ last.proc = proc
    /\ proc' = proc + 1
    /\ cwd' \in ProjectDirs \ {cwd}
    /\ goVersion' \in {goVersion, GoNew}
    /\ cacheOnce' = FALSE
    /\ globalCache' = NilCache
    /\ cacheFilePath' = ""
    /\ cachePersistent' = FALSE
    /\ d' = New("", "", ".")
    /\ UNCHANGED <<cwdMod, cacheDirOk, snapshot, loads, unit, last, expired, docVars,
                   concVars, ctxVars>>

NextDirs == LoadCall \/ NewLoad \/ RestartElsewhere

SpecDirs == Init /\ [][NextDirs]_vars

\* ------------------------------------------------------------------------
\* Input validation over every short string
\* ------------------------------------------------------------------------
\* All sequences over alphabet of length at most n.
Strings(alphabet, n) == UNION {[1..k -> alphabet] : k \in 0..n}

PathStrings == Strings({"f", ".", "/", " "}, MaxPathLen)
SelStrings == Strings({"a", "1", "."}, MaxSelLen)

WarmUnit == [importPath |-> Std, sel |-> <<>>]

InitValidate ==
    /\ Init
    /\ unit = WarmUnit

\* A valid Load of the standard-library package, which initializes and
\* fills the cache before the call under test.
WarmLoad ==
    /\ unit = WarmUnit
    /\ LoadCall

\* The call under test: Load with an arbitrary import path and selector.
ValidateLoad ==
    /\ unit = WarmUnit
    /\ loads < MaxLoads
    /\ \E importPath \in PathStrings, sel \in SelStrings :
          /\ unit' = [importPath |-> importPath, sel |-> sel]
          /\ unit' # WarmUnit
          /\ \E env \in Envs(d, globals, importPath, sel, <<>>) :
                DoLoad(d, importPath, sel, <<>>, env)

NextValidate == WarmLoad \/ ValidateLoad

SpecValidate == InitValidate /\ [][NextValidate]_vars

\* ------------------------------------------------------------------------
\* Package-level and symbol-level loads of one import path
\* ------------------------------------------------------------------------
\* The caller calls Load on its Godoc with a selector chosen per call.
MixedLoad ==
    /\ loads < MaxLoads
    /\ \E sel \in Sels, version \in Versions :
          /\ unit' = [unit EXCEPT !.sel = sel]
          /\ \E env \in Envs(d, globals, unit.importPath, sel, version) :
                DoLoad(d, unit.importPath, sel, version, env)

NextMixed == MixedLoad \/ Restart

SpecMixed == Init /\ [][NextMixed]_vars

\* ------------------------------------------------------------------------
\* Loads with time passing between them
\* ------------------------------------------------------------------------
\* Time passes in the running process: more than a day since the latest
\* write to the cache. Nothing in the engine reads a clock.
TimePasses ==
    /\ ~expired
    /\ last.status # "none"
    /\ expired' = TRUE
    /\ UNCHANGED <<goVersion, proc, cwd, cwdMod, cacheDirOk, snapshot, cacheOnce,
                   globalCache, cacheFilePath, cachePersistent, d, loads, unit, last,
                   docVars, concVars, ctxVars>>

NextTimed == LoadCall \/ TimePasses

SpecTimed == Init /\ [][NextTimed]_vars

\* ------------------------------------------------------------------------
\* Loads over a snapshot that holds a symbol entry without import path
\* ------------------------------------------------------------------------
\* The entry of godoc_internal_test.go: a symbol of the standard-library
\* unit with Name set and ImportPath left empty, of the running toolchain.
LegacySymbol ==
    [buildSymbolIndex(loadDocPkg(New("", "", "."), Std, "", TRUE, TRUE).dpkg,
                      <<>>)[<<"a">>] EXCEPT !.ImportPath = <<>>]

LegacyEntry ==
    [Package |-> <<>>, Symbol |-> <<LegacySymbol>>, GoVersion |-> GoOld,
     ModuleVersion |-> <<>>]

LegacyKey == getCacheKey(Std, getPkgVersion(Std, <<>>, GoOld), <<"a">>)

InitLegacy ==
    /\ goVersion = GoOld
    /\ proc = 0
    /\ cwd = "cwd"
    /\ cwdMod \in GoMods
    /\ cacheDirOk = TRUE
    /\ snapshot = [state |-> "valid", m |-> cacheSet(EmptyMap, LegacyKey, LegacyEntry)]
    /\ cacheOnce = FALSE
    /\ globalCache = NilCache
    /\ cacheFilePath = ""
    /\ cachePersistent = FALSE
    /\ d = New("", "", ".")
    /\ loads = 0
    /\ unit \in [importPath : Units, sel : Sels]
    /\ last = NoCall
    /\ expired = FALSE
    /\ NoDocs
    /\ NoWorkers

SpecLegacy == InitLegacy /\ [][Next]_vars

\* ------------------------------------------------------------------------
\* SymbolDoc.HTML on a held SymbolDoc
\* ------------------------------------------------------------------------
\* The engine before any Load, left alone by the document operations.
engineVars == <<goVersion, proc, cwd, cwdMod, cacheDirOk, snapshot, cacheOnce, globalCache,
                cacheFilePath, cachePersistent, d, loads, unit, last, expired,
                concVars, ctxVars>>

EngineIdle ==
    /\ goVersion = GoOld
    /\ proc = 0
    /\ cwd = "cwd"
    /\ cwdMod = [exists |-> FALSE, req |-> <<>>]
    /\ cacheDirOk = TRUE
    /\ snapshot = [state |-> "absent", m |-> EmptyMap]
    /\ cacheOnce = FALSE
    /\ globalCache = NilCache
    /\ cacheFilePath = ""
    /\ cachePersistent = FALSE
    /\ d = New("", "", ".")
    /\ loads = 0
    /\ unit = WarmUnit
    /\ last = NoCall
    /\ expired = FALSE
    /\ NoWorkers

\* comment.Parser.Parse: the paragraph of the text, none for a blank text.
Parse(text) ==
    IF TrimSpace(text) = <<>> THEN [Content |-> <<>>]
    ELSE [Content |-> <<TrimSpace(text)>>]

\* comment.Printer.HTML: one <p> element per paragraph.
RECURSIVE printerHTML(_)
printerHTML(content) ==
    IF content = <<>> THEN <<>>
    ELSE <<"<p>">> \o Head(content) \o <<"\n">> \o printerHTML(Tail(content))

\* makeSymbolDoc: a documented symbol is parsed and rendered when it is
\* made. docParsed is a pointer: <<>> is nil.
makeSymbolDoc(importPath, kind, name, recvName, text) ==
    [ImportPath |-> importPath, Kind |-> kind, Name |-> name,
     ReceiverName |-> recvName, DocText |-> text,
     DocHTML |-> IF text # <<>> THEN printerHTML(Parse(text).Content) ELSE <<>>,
     docParsed |-> IF text # <<>> THEN <<Parse(text)>> ELSE <<>>]

\* SymbolDoc.HTML has a value receiver: s is the copy the call works on,
\* which the call may assign to; the caller's value is not s.
HTML(s) ==
    IF s.DocHTML = <<>> /\ s.docParsed # <<>>
    THEN With(printerHTML(s.docParsed[1].Content), LAMBDA r :
            [s |-> [s EXCEPT !.DocHTML = r], ret |-> r, rendered |-> TRUE])
    ELSE [s |-> s, ret |-> s.DocHTML, rendered |-> FALSE]

DocTexts == Strings({"a", "b", " "}, MaxDocLen)

\* A SymbolDoc as makeSymbolDoc returns it, as the gob decoder returns it
\* from the snapshot (unexported docParsed is not stored), and as
\* godoc_internal_test.go makes it (SymbolDoc{docParsed: doc}).
InitHTML ==
    /\ EngineIdle
    /\ \E text \in DocTexts :
          \E made \in {makeSymbolDoc(Std, "func", <<"a">>, <<>>, text)} :
             \/ sym = made /\ renders = (IF text # <<>> THEN 1 ELSE 0)
             \/ sym = [made EXCEPT !.docParsed = <<>>] /\ renders = 0
             \/ /\ sym = [ImportPath |-> <<>>, Kind |-> "", Name |-> <<>>,
                          ReceiverName |-> <<>>, DocText |-> <<>>, DocHTML |-> <<>>,
                          docParsed |-> <<Parse(text)>>]
                /\ renders = 0
    /\ htmlCalls = 0
    /\ html = <<>>
    /\ dp = <<>>
    /\ pdoc = <<>>
    /\ index = <<>>

\* html := sym.HTML()
CallHTML ==
    /\ htmlCalls < MaxHTMLCalls
    /\ \E r \in {HTML(sym)} :
          /\ html' = r.ret
          /\ renders' = renders + (IF r.rendered THEN 1 ELSE 0)
    /\ htmlCalls' = htmlCalls + 1
    /\ UNCHANGED <<sym, dp, pdoc, index, engineVars>>

NextHTML == CallHTML

SpecHTML == InitHTML /\ [][NextHTML]_vars

\* ------------------------------------------------------------------------
\* doc_builder.go: toTypeDoc, toPkgDoc, buildSymbolIndex over declarations
\* ------------------------------------------------------------------------
\* The byte of a character, for the < of Go strings.
byteOf(c) ==
    CASE c = "," -> 44 [] c = "." -> 46 [] c = "T" -> 84 [] c = "U" -> 85
      [] c = "a" -> 97 [] c = "b" -> 98 [] c = "c" -> 99 [] c = "m" -> 109
      [] c = "n" -> 110

\* x < y on Go strings: bytewise lexicographic.
RECURSIVE stringLess(_, _)
stringLess(x, y) ==
    IF y = <<>> THEN FALSE
    ELSE IF x = <<>> THEN TRUE
    ELSE IF Head(x) = Head(y) THEN stringLess(Tail(x), Tail(y))
    ELSE byteOf(Head(x)) < byteOf(Head(y))

\* strings.Join
RECURSIVE Join(_, _)
Join(elems, sep) ==
    IF elems = <<>> THEN <<>>
    ELSE IF Len(elems) = 1 THEN elems[1]
    ELSE elems[1] \o sep \o Join(Tail(elems), sep)

\* The inner loop of insertion sort: index i moves left past every index
\* whose key is greater.
RECURSIVE insertInto(_, _, _)
insertInto(sorted, i, keys) ==
    IF sorted = <<>> THEN <<i>>
    ELSE IF stringLess(keys[i], keys[sorted[Len(sorted)]])
    THEN Append(insertInto(SubSeq(sorted, 1, Len(sorted) - 1), i, keys),
                sorted[Len(sorted)])
    ELSE Append(sorted, i)

RECURSIVE insertionSort(_, _)
insertionSort(n, keys) ==
    IF n = 0 THEN <<>> ELSE insertInto(insertionSort(n - 1, keys), n, keys)

\* A slice left in the order it was filled in.
sortSliceKeepOrder(s, keys) == s

\* sort.Slice(s, less) with less comparing keys[i] < keys[j]; a slice of
\* at most 12 elements is sorted by insertion sort.
sortSlice(s, keys) ==
    With(insertionSort(Len(s), keys), LAMBDA order :
       [i \in 1..Len(s) |-> s[order[i]]])

\* The Name of every element.
namesOf(s) == [i \in 1..Len(s) |-> s[i].Name]

\* The comma-joined Names of every ValueDoc.
joinedNamesOf(s) == [i \in 1..Len(s) |-> Join(s[i].Names, <<",">>)]

\* interfaceMethodDocs: the methods of the interface type, promoted ones
\* included; they have no receiver name.
interfaceMethodDocs(t) ==
    [i \in 1..Len(t.Iface) |->
        [Recv |-> t.Name, RecvName |-> <<>>, Name |-> t.Iface[i]]]

\* The loop over extra in toTypeDoc: a method is appended unless its name
\* was seen.
RECURSIVE appendUnseen(_, _)
appendUnseen(methods, extra) ==
    IF extra = <<>> THEN methods
    ELSE IF \E i \in 1..Len(methods) : methods[i].Name = Head(extra).Name
    THEN appendUnseen(methods, Tail(extra))
    ELSE appendUnseen(Append(methods, Head(extra)), Tail(extra))

\* The loop over extra without the seen test.
mergeMethodsAll(direct, extra) == direct \o extra

\* The methods of a type before they are sorted: those declared on it,
\* then the interface methods not seen yet.
mergeMethods(direct, extra) == appendUnseen(direct, extra)

\* sort.Slice(methods, ...) by Name
sortMethods(methods) == sortSlice(methods, namesOf(methods))

toTypeDoc(t) ==
    With([i \in 1..Len(t.Methods) |->
             [Recv |-> t.Name, RecvName |-> t.Methods[i].RecvName,
              Name |-> t.Methods[i].Name]], LAMBDA direct :
       [Name |-> t.Name,
        Methods |-> sortMethods(mergeMethods(direct, interfaceMethodDocs(t)))])

\* The declarations of one field of every type, in the order of the types.
RECURSIVE collect(_, _)
collect(types, field) ==
    IF types = <<>> THEN <<>>
    ELSE Head(types)[field] \o collect(Tail(types), field)

\* The Consts, Vars, Funcs and Types of the PackageDoc toPkgDoc returns.
toPkgDocLists(p) ==
    With([i \in 1..Len(p.Consts) |-> [Names |-> p.Consts[i]]]
            \o [i \in 1..Len(collect(p.Types, "Consts")) |->
                  [Names |-> collect(p.Types, "Consts")[i]]], LAMBDA consts :
    With([i \in 1..Len(p.Vars) |-> [Names |-> p.Vars[i]]]
            \o [i \in 1..Len(collect(p.Types, "Vars")) |->
                  [Names |-> collect(p.Types, "Vars")[i]]], LAMBDA vars_ :
    With([i \in 1..Len(p.Funcs) |-> [Name |-> p.Funcs[i]]]
            \o [i \in 1..Len(collect(p.Types, "Funcs")) |->
                  [Name |-> collect(p.Types, "Funcs")[i]]], LAMBDA funcs :
    With([i \in 1..Len(p.Types) |-> toTypeDoc(p.Types[i])], LAMBDA types :
       [built |-> TRUE,
        Consts |-> sortSlice(consts, joinedNamesOf(consts)),
        Vars |-> sortSlice(vars_, joinedNamesOf(vars_)),
        Funcs |-> sortSlice(funcs, namesOf(funcs)),
        Types |-> sortSlice(types, namesOf(types))]))))

\* A registration that replaces the entry already under the key.
addLastWins(result, key, doc) ==
    IF key = <<>> THEN result
    ELSE [k \in DOMAIN result \cup {key} |-> IF k = key THEN doc ELSE result[k]]

\* The closure add of buildSymbolIndex.
add(result, key, doc) ==
    IF key = <<>> THEN result
    ELSE IF key \in DOMAIN result THEN result
    ELSE [k \in DOMAIN result \cup {key} |-> IF k = key THEN doc ELSE result[k]]

\* One registration per name of every value declaration.
RECURSIVE valueRegs(_, _, _)
valueRegs(importPath, kind, values) ==
    IF values = <<>> THEN <<>>
    ELSE [i \in 1..Len(Head(values)) |->
             [key |-> Head(values)[i],
              doc |-> makeSymbolDoc(importPath, kind, Head(values)[i], <<>>, <<>>)]]
         \o valueRegs(importPath, kind, Tail(values))

\* The two registrations of every function associated with a type.
RECURSIVE typeFuncRegs(_, _, _)
typeFuncRegs(importPath, typeName, funcs) ==
    IF funcs = <<>> THEN <<>>
    ELSE With(makeSymbolDoc(importPath, "func", Head(funcs), <<>>, <<>>), LAMBDA doc :
            <<[key |-> typeName \o <<".">> \o Head(funcs), doc |-> doc],
              [key |-> Head(funcs), doc |-> doc]>>)
         \o typeFuncRegs(importPath, typeName, Tail(funcs))

\* The calls of add for one type, in the order buildSymbolIndex makes them.
typeRegs(importPath, t) ==
    With(toTypeDoc(t), LAMBDA td :
       <<[key |-> t.Name, doc |-> makeSymbolDoc(importPath, "type", t.Name, <<>>, <<>>)]>>
       \o [i \in 1..Len(td.Methods) |->
             [key |-> t.Name \o <<".">> \o td.Methods[i].Name,
              doc |-> makeSymbolDoc(importPath, "method", td.Methods[i].Name,
                                    td.Methods[i].RecvName, <<>>)]]
       \o typeFuncRegs(importPath, t.Name, t.Funcs)
       \o valueRegs(importPath, "const", t.Consts)
       \o valueRegs(importPath, "var", t.Vars))

RECURSIVE allTypeRegs(_, _)
allTypeRegs(importPath, types) ==
    IF types = <<>> THEN <<>>
    ELSE typeRegs(importPath, Head(types)) \o allTypeRegs(importPath, Tail(types))

\* Every call of add that buildSymbolIndex makes, in order.
registrations(p, importPath) ==
    allTypeRegs(importPath, p.Types)
    \o [i \in 1..Len(p.Funcs) |->
          [key |-> p.Funcs[i],
           doc |-> makeSymbolDoc(importPath, "func", p.Funcs[i], <<>>, <<>>)]]
    \o valueRegs(importPath, "const", p.Consts)
    \o valueRegs(importPath, "var", p.Vars)

RECURSIVE addAll(_, _)
addAll(result, regs) ==
    IF regs = <<>> THEN result
    ELSE addAll(add(result, Head(regs).key, Head(regs).doc), Tail(regs))

\* The map buildSymbolIndex returns for the declarations of p.
buildSymbolIndexOf(p, importPath) ==
    [built |-> TRUE, m |-> addAll(EmptyMap, registrations(p, importPath))]

\* ------------------------------------------------------------------------
\* The document builder over every small package
\* ------------------------------------------------------------------------
\* The sequences without repetition over S of length at most n.
InjSeqs(S, n) ==
    {q \in Strings(S, n) : \A i, j \in 1..Len(q) : q[i] = q[j] => i = j}

FuncNames == {<<"a">>, <<"b">>, <<"a", "b">>}
ValueNames == {<< <<"a">>, <<"b">> >>, << <<"a", "b">> >>, << <<"c">> >>}
TypeNames == {<<"T">>, <<"U">>}
MethodNames == {<<"m">>, <<"n">>}

\* The types the front-end may deliver under a name: declared methods in
\* any order, interface methods, associated functions and constants.
TypesNamed(name, n) ==
    {[Name |-> name,
      Methods |-> [i \in 1..Len(ms) |-> [Name |-> ms[i], RecvName |-> <<"r">>]],
      Iface |-> im, Funcs |-> fs, Consts |-> cs, Vars |-> <<>>] :
        ms \in InjSeqs(MethodNames, n), im \in InjSeqs(MethodNames, n),
        fs \in InjSeqs({<<"m">>}, n), cs \in InjSeqs({<< <<"c">> >>}, n)}

RECURSIVE TypeSeqs(_, _)
TypeSeqs(names, n) ==
    IF names = <<>> THEN {<<>>}
    ELSE {<<t>> \o rest : t \in TypesNamed(Head(names), n),
                          rest \in TypeSeqs(Tail(names), n)}

\* Packages of functions and values in any order, and packages of types in
\* any order, each list of at most n declarations.
Packages(n) ==
    {[Funcs |-> fs, Consts |-> cs, Vars |-> vs, Types |-> <<>>] :
        fs \in InjSeqs(FuncNames, n), cs \in InjSeqs(ValueNames, n),
        vs \in InjSeqs(ValueNames, n)}
    \cup {[Funcs |-> <<>>, Consts |-> <<>>, Vars |-> <<>>, Types |-> ts] :
             ts \in UNION {TypeSeqs(names, n) : names \in InjSeqs(TypeNames, n)}}

NoPkgLists == [built |-> FALSE, Consts |-> <<>>, Vars |-> <<>>, Funcs |-> <<>>,
               Types |-> <<>>]
NoIndex == [built |-> FALSE, m |-> EmptyMap]

InitDocs ==
    /\ EngineIdle
    /\ sym = <<>>
    /\ htmlCalls = 0
    /\ renders = 0
    /\ html = <<>>
    /\ dp \in Packages(MaxDecls)
    /\ pdoc = NoPkgLists
    /\ index = NoIndex

\* pkgDoc := toPkgDoc(dpkg, ...)
BuildPkgDoc ==
    /\ ~pdoc.built
    /\ pdoc' = toPkgDocLists(dp)
    /\ UNCHANGED <<sym, htmlCalls, renders, html, dp, index, engineVars>>

\* symbols = buildSymbolIndex(dpkg, ...)
BuildIndex ==
    /\ ~index.built
    /\ index' = buildSymbolIndexOf(dp, Std)
    /\ UNCHANGED <<sym, htmlCalls, renders, html, dp, pdoc, engineVars>>

NextDocs == BuildPkgDoc \/ BuildIndex

SpecDocs == InitDocs /\ [][NextDocs]_vars

\* ------------------------------------------------------------------------
\* Concurrent Load calls on one Godoc: g.Load(importPath, sel, "") in
\* MaxWorkers goroutines, as in TestCacheConcurrency
\* ------------------------------------------------------------------------
\* What no step of a concurrent call changes.
ConcFrame ==
    UNCHANGED <<goVersion, proc, cwd, cwdMod, cacheDirOk, loads, unit, last, expired, docVars,
                ctxVars>>

\* The package-level cache variables stay as they are.
CacheVarsUnchanged ==
    UNCHANGED <<cacheOnce, globalCache, cacheFilePath, cachePersistent>>

\* A mutex that can always be locked.
mutexFreeAlways(mu) == TRUE

\* cacheMu.Lock() returns only when nobody holds the mutex.
mutexFree(mu) == mu = 0

\* The goroutines are started; the package-level variables are those of a
\* fresh process.
InitConc ==
    /\ goVersion = GoOld
    /\ proc = 0
    /\ cwd = "cwd"
    /\ cwdMod \in GoMods
    /\ cacheDirOk \in BOOLEAN
    /\ snapshot \in {[state |-> "absent", m |-> EmptyMap],
                     [state |-> "corrupt", m |-> EmptyMap]}
    /\ (~cacheDirOk => snapshot.state = "absent")
    /\ cacheOnce = FALSE
    /\ globalCache = NilCache
    /\ cacheFilePath = ""
    /\ cachePersistent = FALSE
    /\ d = New("", "", ".")
    /\ loads = 0
    /\ unit \in [importPath : Units, sel : Sels]
    /\ last = NoCall
    /\ expired = FALSE
    /\ NoDocs
    /\ pc = [w \in Workers |-> "start"]
    /\ loc = [w \in Workers |-> NoLocals]
    /\ cacheMu = 0
    /\ onceRunner = 0
    /\ ctxErr = ""
    /\ dep = NoDep

\* Load: a symbol without import path gets the package path.
withImportPath(res, pkgPath) ==
    IF res # <<>> /\ unit.sel # <<>> /\ res[1].ImportPath = <<>>
    THEN <<[res[1] EXCEPT !.ImportPath = pkgPath]>>
    ELSE res

\* The call of w returns.
Return(w, status, err, res) ==
    /\ pc' = [pc EXCEPT ![w] = "done"]
    /\ loc' = [loc EXCEPT ![w].status = status, ![w].err = err, ![w].res = res]

\* Load: validateInputs, then getOrLoadPkg or getOrLoadSymbol.
Start(w) ==
    /\ pc[w] = "start"
    /\ \E verr \in {validateInputs(unit.importPath, unit.sel)} :
          IF verr # Nil
          THEN Return(w, "err", verr, <<>>)
          ELSE pc' = [pc EXCEPT ![w] = "getCache"] /\ UNCHANGED loc
    /\ CacheVarsUnchanged
    /\ UNCHANGED <<snapshot, d, cacheMu, onceRunner>>
    /\ ConcFrame

\* getCache: cacheOnce.Do finds the gate done, or nobody in it and enters;
\* a call that finds another call in the body waits.
OnceDo(w) ==
    /\ pc[w] = "getCache"
    /\ \/ /\ cacheOnce
          /\ pc' = [pc EXCEPT ![w] = "lookup"]
          /\ UNCHANGED onceRunner
       \/ /\ ~cacheOnce
          /\ onceRunner = 0
          /\ onceRunner' = w
          /\ pc' = [pc EXCEPT ![w] = "onceBody"]
    /\ CacheVarsUnchanged
    /\ UNCHANGED <<loc, snapshot, d, cacheMu>>
    /\ ConcFrame

\* The body of cacheOnce.Do and the return of getCache in the call that
\* ran it.
OnceBody(w) ==
    /\ pc[w] = "onceBody"
    /\ \E gc \in {getCache(globals)} :
          /\ cacheOnce' = gc.g.once
          /\ globalCache' = gc.g.cache
          /\ cacheFilePath' = gc.g.path
          /\ cachePersistent' = gc.g.persistent
          /\ IF gc.err # ""
             THEN Return(w, "err", gc.err, <<>>)
             ELSE pc' = [pc EXCEPT ![w] = "lookup"] /\ UNCHANGED loc
    /\ onceRunner' = 0
    /\ UNCHANGED <<snapshot, d, cacheMu>>
    /\ ConcFrame

\* The lookup of getOrLoadPkg / getOrLoadSymbol: a fresh entry is
\* returned, after the toolchain version is recorded in it if it had none.
Lookup(w) ==
    /\ pc[w] = "lookup"
    /\ \E expected \in {getPkgVersion(unit.importPath, <<>>, goVersion)} :
       \E key \in {getCacheKey(unit.importPath, expected, unit.sel)} :
       \E got \in {getValidCacheEntry(globalCache, key)} :
       \E payload \in {IF unit.sel = <<>> THEN got.entry.Package ELSE got.entry.Symbol} :
          IF got.ok /\ isFresh(unit.importPath, payload, got.entry, expected)
          THEN /\ globalCache' =
                     IF ~isRemoteImportPath(unit.importPath) /\ got.entry.GoVersion = <<>>
                     THEN [isNil |-> FALSE,
                           m |-> cacheSet(globalCache.m, key,
                                          [got.entry EXCEPT !.GoVersion = goVersion])]
                     ELSE globalCache
               /\ pc' = [pc EXCEPT ![w] = "done"]
               /\ loc' = [loc EXCEPT
                     ![w].status = "ok",
                     ![w].res = withImportPath(payload, payload[1].ImportPath),
                     ![w].hit = TRUE]
          ELSE /\ pc' = [pc EXCEPT ![w] = "build"]
               /\ UNCHANGED <<globalCache, loc>>
    /\ UNCHANGED <<cacheOnce, cacheFilePath, cachePersistent, snapshot, d, cacheMu,
                   onceRunner>>
    /\ ConcFrame

\* buildDoc and what follows it up to the call of setCacheEntry.
Build(w) ==
    /\ pc[w] = "build"
    /\ \E b \in {buildDoc(d, unit.importPath, <<>>, unit.sel # <<>>, AllOk)} :
          /\ d' = [d EXCEPT !.depCache = b.depCache]
          /\ IF b.err # ""
             THEN /\ pc' = [pc EXCEPT ![w] = "done"]
                  /\ loc' = [loc EXCEPT ![w].status = "err", ![w].err = b.err,
                                         ![w].nLoads = b.nLoads]
             ELSE IF unit.sel # <<>> /\ unit.sel \notin DOMAIN b.symbols
             THEN /\ pc' = [pc EXCEPT ![w] = "done"]
                  /\ loc' = [loc EXCEPT ![w].status = "err",
                                         ![w].err = ErrSelectorNotFound,
                                         ![w].nLoads = b.nLoads]
             ELSE \E expected \in {getPkgVersion(unit.importPath, <<>>, goVersion)} :
                  \E key \in {getCacheKey(unit.importPath, expected, unit.sel)} :
                     /\ pc' = [pc EXCEPT ![w] = "set"]
                     /\ loc' = [loc EXCEPT
                           ![w].nLoads = b.nLoads,
                           ![w].res = IF unit.sel = <<>> THEN <<b.pkgDoc>>
                                      ELSE withImportPath(<<b.symbols[unit.sel]>>,
                                                          b.pkgPath),
                           ![w].entry =
                               [Package |-> IF unit.sel = <<>> THEN <<b.pkgDoc>> ELSE <<>>,
                                Symbol |-> IF unit.sel = <<>> THEN <<>>
                                           ELSE <<b.symbols[unit.sel]>>,
                                GoVersion |-> b.meta.GoVersion,
                                ModuleVersion |-> b.meta.ModuleVersion],
                           ![w].keys = missKeys(unit.importPath, key, unit.sel,
                                                b.actualVersion)]
    /\ CacheVarsUnchanged
    /\ UNCHANGED <<snapshot, cacheMu, onceRunner>>
    /\ ConcFrame

\* setCacheEntry, the loop over keys: one cache.Set per step; on a nil
\* cache the first Set dereferences a nil pointer, and the panic ends the
\* process with every call that has not returned. After the loop the call
\* returns unless persistence is on.
SetKey(w) ==
    /\ pc[w] = "set"
    /\ IF loc[w].keys # <<>>
       THEN IF Head(loc[w].keys) = <<>>
            THEN /\ loc' = [loc EXCEPT ![w].keys = Tail(loc[w].keys)]
                 /\ UNCHANGED <<pc, globalCache>>
            ELSE IF globalCache.isNil
            THEN /\ pc' = [v \in Workers |->
                           IF v = w THEN "panic"
                           ELSE IF pc[v] = "done" THEN "done" ELSE "killed"]
                 /\ loc' = [loc EXCEPT ![w].status = "panic", ![w].err = "nil cache"]
                 /\ UNCHANGED globalCache
            ELSE /\ globalCache' =
                       [isNil |-> FALSE,
                        m |-> cacheSet(globalCache.m, Head(loc[w].keys), loc[w].entry)]
                 /\ loc' = [loc EXCEPT ![w].keys = Tail(loc[w].keys)]
                 /\ UNCHANGED pc
       ELSE /\ IF ~cachePersistent \/ cacheFilePath = ""
               THEN pc' = [pc EXCEPT ![w] = "done"]
                    /\ loc' = [loc EXCEPT ![w].status = "ok"]
               ELSE pc' = [pc EXCEPT ![w] = "lock"] /\ UNCHANGED loc
            /\ UNCHANGED globalCache
    /\ UNCHANGED <<cacheOnce, cacheFilePath, cachePersistent, snapshot, d, cacheMu,
                   onceRunner>>
    /\ ConcFrame

\* cacheMu.Lock()
Lock(w) ==
    /\ pc[w] = "lock"
    /\ mutexFree(cacheMu)
    /\ cacheMu' = w
    /\ pc' = [pc EXCEPT ![w] = "save"]
    /\ CacheVarsUnchanged
    /\ UNCHANGED <<loc, snapshot, d, onceRunner>>
    /\ ConcFrame

\* cache.SaveToFile begins to write the file.
SaveBegin(w) ==
    /\ pc[w] = "save"
    /\ pc' = [pc EXCEPT ![w] = "writing"]
    /\ CacheVarsUnchanged
    /\ UNCHANGED <<loc, snapshot, d, cacheMu, onceRunner>>
    /\ ConcFrame

\* cache.SaveToFile ends: the file holds the entries of the cache, or the
\* write failed and the file is as it was.
SaveEnd(w) ==
    /\ pc[w] = "writing"
    /\ \E save \in {"ok", "perm", "io"} :
          IF save = "ok"
          THEN /\ snapshot' = [state |-> "valid", m |-> globalCache.m]
               /\ loc' = [loc EXCEPT ![w].status = "ok"]
          ELSE /\ loc' = [loc EXCEPT
                     ![w].status = "err",
                     ![w].err = IF save = "perm" THEN ErrPermission ELSE ErrWrite,
                     ![w].res = <<>>]
               /\ UNCHANGED snapshot
    /\ pc' = [pc EXCEPT ![w] = "unlock"]
    /\ CacheVarsUnchanged
    /\ UNCHANGED <<d, cacheMu, onceRunner>>
    /\ ConcFrame

\* The deferred cacheMu.Unlock() and the return.
Unlock(w) ==
    /\ pc[w] = "unlock"
    /\ cacheMu' = 0
    /\ pc' = [pc EXCEPT ![w] = "done"]
    /\ CacheVarsUnchanged
    /\ UNCHANGED <<loc, snapshot, d, onceRunner>>
    /\ ConcFrame

\* A call has panicked: the process is gone.
Crashed == \E w \in Workers : pc[w] = "panic"

WorkerStep(w) ==
    \/ Start(w) \/ OnceDo(w) \/ OnceBody(w) \/ Lookup(w) \/ Build(w)
    \/ SetKey(w) \/ Lock(w) \/ SaveBegin(w) \/ SaveEnd(w) \/ Unlock(w)

NextConc == \E w \in Workers : WorkerStep(w)

SpecConc == InitConc /\ [][NextConc]_vars

\* The Go scheduler runs every goroutine that can run; the external
\* commands and the file writes end.
SpecConcFair == SpecConc /\ \A w \in Workers : WF_vars(WorkerStep(w))

\* ------------------------------------------------------------------------
\* utils.go: runGo under the context of the Godoc, and a Load whose
\* dependency setup runs the commands one after the other while the context
\* may be cancelled or reach its deadline
\* ------------------------------------------------------------------------
CtxErrors == {"context canceled", "context deadline exceeded"}

\* What cmd.Run returns for a command that was started and failed.
RunErrors == {"exit status 1", "signal: killed"}

\* A runGo that never looks at the context.
runGoIgnoresContext(args, runErr, ctxE) ==
    IF runErr = "" THEN NoError
    ELSE [msg |-> <<runErr>>, wraps |-> {<<runErr>>}]

\* runErr is the error of cmd.Run, ctxE is ctx.Err() after it. The message
\* is a sequence of words; wraps are the messages of the errors Unwrap
\* yields.
runGo(args, runErr, ctxE) ==
    IF runErr = "" THEN NoError
    ELSE IF ctxE # ""
    THEN [msg |-> <<"go">> \o args \o <<":", ctxE>>, wraps |-> {}]
    ELSE [msg |-> <<runErr>>, wraps |-> {<<runErr>>}]

\* exec.CommandContext(ctx, ...).Run(): the error of the run and ctx.Err()
\* after it. A command whose context is done is not started; a started
\* command runs to its end, or is killed when the context ends meanwhile,
\* or ends by itself just as the context does.
cmdRun(ctxE, canSucceed) ==
    IF ctxE # "" THEN {[runErr |-> ctxE, ctxAfter |-> ctxE]}
    ELSE LET own == {"exit status 1"} \cup (IF canSucceed THEN {""} ELSE {})
         IN {[runErr |-> e, ctxAfter |-> ""] : e \in own}
            \cup {[runErr |-> "signal: killed", ctxAfter |-> c] : c \in CtxErrors}
            \cup {[runErr |-> e, ctxAfter |-> c] : e \in own, c \in CtxErrors}

\* fmt.Errorf(prefix + ": %w", err)
wrapError(prefix, err) == [msg |-> <<prefix>> \o err.msg, wraps |-> {err.msg} \cup err.wraps]

\* buildDoc: the error of a failed direct load and a failed dependency setup.
errSetupOf(loadErr, err2) ==
    [msg |-> <<ErrSetup>>, wraps |-> {<<loadErr>>, err2.msg} \cup err2.wraps]

InitCtx ==
    /\ goVersion = GoOld
    /\ proc = 0
    /\ cwd = "cwd"
    /\ cwdMod \in GoMods
    /\ cacheDirOk = TRUE
    /\ snapshot = [state |-> "absent", m |-> EmptyMap]
    /\ cacheOnce = FALSE
    /\ globalCache = NilCache
    /\ cacheFilePath = ""
    /\ cachePersistent = FALSE
    /\ d \in {New(o[1], o[2], o[3]) : o \in Options}
    /\ loads = 0
    /\ unit \in [importPath : Units, sel : Sels]
    /\ last = NoCall
    /\ expired = FALSE
    /\ NoDocs
    /\ pc = [w \in Workers |-> "idle"]
    /\ loc = [w \in Workers |-> NoLocals]
    /\ cacheMu = 0
    /\ onceRunner = 0
    /\ ctxErr \in {""} \cup CtxErrors
    /\ dep = [NoDep EXCEPT !.pc = "load"]

CtxFrame ==
    UNCHANGED <<goVersion, proc, cwd, cwdMod, cacheDirOk, snapshot, cacheOnce, globalCache,
                cacheFilePath, cachePersistent, loads, unit, last, expired, docVars,
                concVars>>

\* The Load returns err and no result.
depFails(err) == [dep EXCEPT !.pc = "done", !.status = "err", !.err = err, !.res = <<>>]

\* The command failed: runGo returned err.
depFailed(args, o, err) ==
    dep.failed \cup {[args |-> args, runErr |-> o.runErr, ctx |-> o.ctxAfter, err |-> err]}

\* The context is cancelled, or its deadline passes, between two steps.
CtxDone ==
    /\ dep.pc \notin {"idle", "done"}
    /\ ctxErr = ""
    /\ ctxErr' \in CtxErrors
    /\ UNCHANGED <<d, dep>>
    /\ CtxFrame

\* buildDoc: the first loadPkg(importPath, "", needTypes); packages.Load
\* runs under the context as well.
CtxFirstLoad ==
    /\ dep.pc = "load"
    /\ \E r1 \in {loadDocPkg(d, unit.importPath, "", unit.sel # <<>>, TRUE)} :
          dep' = IF validateInputs(unit.importPath, unit.sel) # Nil
                 THEN depFails([msg |-> <<"invalid input">>, wraps |-> {}])
                 ELSE IF r1.err = "" /\ ctxErr = ""
                 THEN [dep EXCEPT !.pc = "done", !.status = "ok", !.res = <<r1.pkgPath>>]
                 ELSE [dep EXCEPT !.pc = "checkDep",
                                  !.loadErr = IF ctxErr # "" THEN ctxErr ELSE r1.err]
    /\ UNCHANGED <<d, ctxErr>>
    /\ CtxFrame

\* checkModuleDep up to the probe: the requirement in go.mod, the depCache.
CtxCheckDep ==
    /\ dep.pc = "checkDep"
    /\ LET gm == GoMod(physical(d.workdir))
           inMod == gm.exists /\ unit.importPath = Rem /\ gm.req # <<>>
       IN dep' = IF inMod THEN [dep EXCEPT !.pc = "load2", !.dir = d.workdir]
                 ELSE IF unit.importPath \in DOMAIN d.depCache
                 THEN IF d.depCache[unit.importPath]
                      THEN [dep EXCEPT !.pc = "load2", !.dir = d.workdir]
                      ELSE [dep EXCEPT !.pc = "mkdir"]
                 ELSE [dep EXCEPT !.pc = "list"]
    /\ UNCHANGED <<d, ctxErr>>
    /\ CtxFrame

\* d.runGo(d.workdir, "list", target) and the depCache.Store of its outcome.
CtxList ==
    /\ dep.pc = "list"
    /\ \E o \in cmdRun(ctxErr, goList(d.workdir, unit.importPath, <<>>)) :
       \E err \in {runGo(<<"list">>, o.runErr, o.ctxAfter)} :
          /\ ctxErr' = o.ctxAfter
          /\ d' = [d EXCEPT !.depCache =
                       [k \in DOMAIN d.depCache \cup {unit.importPath} |->
                           IF k = unit.importPath THEN err = NoError
                           ELSE d.depCache[k]]]
          /\ dep' = IF err = NoError
                    THEN [dep EXCEPT !.pc = "load2", !.dir = d.workdir]
                    ELSE [dep EXCEPT !.pc = "mkdir",
                                     !.failed = depFailed(<<"list">>, o, err)]
    /\ CtxFrame

\* os.MkdirTemp
CtxMkdir ==
    /\ dep.pc = "mkdir"
    /\ \E ok \in BOOLEAN :
          dep' = IF ok THEN [dep EXCEPT !.pc = "init", !.dir = "tmp"]
                 ELSE depFails(errSetupOf(dep.loadErr,
                                          [msg |-> <<"mkdirtemp failed">>, wraps |-> {}]))
    /\ UNCHANGED <<d, ctxErr>>
    /\ CtxFrame

\* d.runGo(tempDir, "mod", "init", base)
CtxModInit ==
    /\ dep.pc = "init"
    /\ \E o \in cmdRun(ctxErr, TRUE) :
       \E err \in {runGo(<<"mod", "init">>, o.runErr, o.ctxAfter)} :
          /\ ctxErr' = o.ctxAfter
          /\ dep' = IF err = NoError THEN [dep EXCEPT !.pc = "get"]
                    ELSE [depFails(errSetupOf(dep.loadErr,
                                              wrapError("go mod init failed:", err)))
                          EXCEPT !.failed = depFailed(<<"mod", "init">>, o, err)]
    /\ UNCHANGED d
    /\ CtxFrame

\* d.runGo(tempDir, "get", target)
CtxGet ==
    /\ dep.pc = "get"
    /\ \E o \in cmdRun(ctxErr, goGet(unit.importPath)) :
       \E err \in {runGo(<<"get">>, o.runErr, o.ctxAfter)} :
          /\ ctxErr' = o.ctxAfter
          /\ dep' = IF err = NoError THEN [dep EXCEPT !.pc = "load2"]
                    ELSE [depFails(errSetupOf(dep.loadErr,
                                              wrapError("go get failed:", err)))
                          EXCEPT !.failed = depFailed(<<"get">>, o, err)]
    /\ UNCHANGED d
    /\ CtxFrame

\* buildDoc: loadPkg(importPath, modDir, true) in the resolved directory.
CtxSecondLoad ==
    /\ dep.pc = "load2"
    /\ \E r \in {loadDocPkg(d, unit.importPath,
                             IF dep.dir = "tmp" THEN tempDir(Latest) ELSE dep.dir,
                             TRUE, TRUE)} :
          dep' = IF r.err = "" /\ ctxErr = ""
                 THEN [dep EXCEPT !.pc = "done", !.status = "ok", !.res = <<r.pkgPath>>]
                 ELSE depFails([msg |-> <<"load with module dependency failed:",
                                          IF ctxErr # "" THEN ctxErr ELSE r.err>>,
                                wraps |-> {<<IF ctxErr # "" THEN ctxErr ELSE r.err>>}])
    /\ UNCHANGED <<d, ctxErr>>
    /\ CtxFrame

NextCtx ==
    \/ CtxDone \/ CtxFirstLoad \/ CtxCheckDep \/ CtxList \/ CtxMkdir
    \/ CtxModInit \/ CtxGet \/ CtxSecondLoad

SpecCtx == InitCtx /\ [][NextCtx]_vars

\* ------------------------------------------------------------------------
\* Properties
\* ------------------------------------------------------------------------
\* The classes of rejected input, stated on the characters of the strings.
Blank(p) == \A i \in 1..Len(p) : p[i] = " "
Traversal(p) == \E i \in 1..(Len(p) - 1) : p[i] = "." /\ p[i + 1] = "."
Absolute(p) == Len(p) > 0 /\ p[1] = "/"
BadPath(p) == Blank(p) \/ Traversal(p) \/ Absolute(p)

\* s is identifier(.identifier)*.
IsSelector(s) ==
    /\ Len(s) > 0
    /\ \A i \in 1..Len(s) :
          IF s[i] = "."
          THEN i > 1 /\ i < Len(s) /\ s[i - 1] # "."
          ELSE /\ IsIdentPart(s[i])
               /\ (i = 1 \/ s[i - 1] = ".") => IsIdentStart(s[i])
BadSel(s) == s # <<>> /\ ~IsSelector(s)

\* The call recorded in last touched neither the cache nor the resolver.
Untouched ==
    /\ last.getCacheCalls = 0
    /\ last.gets = 0
    /\ last.nLoads = 0
    /\ last.cmds = 0
    /\ last.created = 0
    /\ last.saves = 0
    /\ cacheOnce = last.onceBefore

\* C2: a Load whose import path is blank, contains ".." or starts with "/",
\* or whose non-empty selector is not identifier(.identifier)*, returns the
\* matching input error, and it does so before the cache is initialized or
\* read and before any extraction or external command.
C2_ValidationFirst ==
    last.status # "none" =>
       /\ Blank(last.importPath) => last.err = ErrEmptyImportPath
       /\ (~Blank(last.importPath) /\ BadPath(last.importPath))
             => last.err = ErrInvalidImportPath
       /\ (~BadPath(last.importPath) /\ BadSel(last.sel))
             => last.err = ErrInvalidSelector
       /\ (BadPath(last.importPath) \/ BadSel(last.sel))
             => last.status = "err" /\ Untouched

\* A ".." path is rejected although the cache of the process is warm.
C2_Witness ==
    /\ Traversal(last.importPath)
    /\ ~Absolute(last.importPath)
    /\ last.err = ErrInvalidImportPath
    /\ last.onceBefore
    /\ globalCache.m # EmptyMap

\* A step that is one Load call.
LoadStep == loads' = loads + 1

\* The Load of this step repeats the Load before it: same arguments, same
\* Godoc configuration, same process and toolchain, and both succeed.
RepeatedLoad ==
    /\ LoadStep
    /\ last.status = "ok"
    /\ last'.status = "ok"
    /\ last'.importPath = last.importPath
    /\ last'.sel = last.sel
    /\ last'.version = last.version
    /\ last'.goos = last.goos
    /\ last'.goarch = last.goarch
    /\ last'.workdir = last.workdir
    /\ last'.proc = last.proc
    /\ last'.goVersion = last.goVersion

\* C1: when Load is called twice in succession with the same arguments
\* under the same toolchain and both calls succeed, the results are equal
\* and the second call is a cache hit that does not call loadPkg.
C1_SecondLoadFromCache ==
    [][RepeatedLoad => /\ last'.res = last.res
                       /\ last'.hit
                       /\ last'.nLoads = 0]_vars

\* C3: a successful Load of the remote module with a non-empty version
\* returns documentation extracted from the module at that version.
C3_PinnedVersionExtracted ==
    (/\ last.status = "ok"
     /\ last.importPath = Rem
     /\ TrimSpace(last.version) # <<>>)
       => last.res[1].modver = TrimSpace(last.version)

\* C4: a successful Load returns the documentation extracted for the
\* target (GOOS, GOARCH) its Godoc is configured with, whatever targets
\* earlier calls used.
C4_TargetOfThisGodoc ==
    last.status = "ok" =>
       /\ last.res[1].goos = (IF last.goos # "" THEN last.goos ELSE HostOS)
       /\ last.res[1].goarch = (IF last.goarch # "" THEN last.goarch ELSE HostArch)

\* C5: the first extraction attempt of Load(".") is made against the
\* configured working directory, and the package documented is the one
\* located there.
C5_FirstAttemptInWorkdir ==
    (last.importPath = Dot /\ last.nLoads > 0) =>
       /\ physical(last.firstDir) = physical(last.workdir)
       /\ last.status = "ok" => last.res[1].from = physical(last.workdir)

\* The payload the call recorded in last looks for in a cache entry.
payloadOf(entry) == IF last.sel = <<>> THEN entry.Package ELSE entry.Symbol

\* The lookup of the call found an entry that carries the payload.
FoundPayload == last.found /\ payloadOf(last.foundEntry) # <<>>

\* The call extracted the documentation anew.
Rebuilt == ~last.hit /\ last.nLoads > 0

\* The call returned the entry it found without extraction.
ServedFromEntry ==
    /\ last.hit
    /\ last.status = "ok"
    /\ last.nLoads = 0
    /\ last.res = payloadOf(last.foundEntry)

\* C6: a found entry recording a different, non-empty toolchain version is
\* a miss for a local or standard-library unit; a found entry of a remote
\* unit is a hit whatever toolchain version it records.
C6_StaleLocalMissRemoteHit ==
    FoundPayload =>
       /\ (/\ ~isRemoteImportPath(last.importPath)
           /\ last.foundEntry.GoVersion \notin {<<>>, last.goVersion})
             => Rebuilt
       /\ isRemoteImportPath(last.importPath) => ServedFromEntry

\* After a toolchain upgrade the entry of a non-remote unit recorded by the
\* old toolchain is found and rebuilt.
C6_Witness ==
    /\ FoundPayload
    /\ ~isRemoteImportPath(last.importPath)
    /\ last.foundEntry.GoVersion = GoOld
    /\ last.goVersion = GoNew
    /\ Rebuilt
    /\ last.status = "ok"

Backfillable ==
    last.foundEntry.GoVersion = <<>> /\ last.importPath # Dot

InMemoryUnderEveryKey ==
    /\ last.keys # <<>>
    /\ \A i \in 1..Len(last.keys) :
          LET got == getValidCacheEntry(globalCache, last.keys[i])
          IN got.ok /\ got.entry = last.entry

\* The snapshot write of the call recorded in last failed, and the process
\* that made the call is still running.
WriteFailed == last.saveRes \in {"perm", "io"} /\ last.proc = proc

\* C8 as stated: when the snapshot write of a miss fails, Load returns a
\* permission error and the entry stays in memory under every key.
C8_WriteFailureIsPermissionError ==
    WriteFailed =>
       /\ last.status = "err"
       /\ last.err = ErrPermission
       /\ InMemoryUnderEveryKey

\* C8: when the snapshot write of a miss fails, Load returns an error: the
\* permission error when the failure is a permission failure, the error of
\* the write itself otherwise. In both cases the entry stays in memory
\* under every key it was written to and lookups return it.
C8_WriteFailureKeepsEntry ==
    WriteFailed =>
       /\ last.status = "err"
       /\ last.err = (IF last.saveRes = "perm" THEN ErrPermission ELSE ErrWrite)
       /\ last.res = <<>>
       /\ InMemoryUnderEveryKey

\* A write that fails for another reason than permissions, with the entry
\* left in memory under the requested and the version-agnostic key.
C8_Witness ==
    /\ WriteFailed
    /\ last.saveRes = "io"
    /\ last.err = ErrWrite
    /\ Len(last.keys) > 1
    /\ InMemoryUnderEveryKey

\* C9: while the snapshot file is unreadable, an initialized cache is
\* usable, not persistent and without snapshot path, initialization has
\* returned no error, and no call attempts a snapshot write.
C9_UnreadableSnapshotDisablesPersistence ==
    snapshot.state = "corrupt" =>
       /\ cacheOnce => /\ ~globalCache.isNil
                       /\ ~cachePersistent
                       /\ cacheFilePath = ""
       /\ last.saves = 0
       /\ last.saveRes = "none"
       /\ last.err # ErrCacheDir
       /\ (last.status = "ok" /\ ~last.hit /\ last.proc = proc) => InMemoryUnderEveryKey

\* A miss stored its entry in memory although the snapshot is unreadable,
\* and wrote no snapshot.
C9_Witness ==
    /\ snapshot.state = "corrupt"
    /\ cacheOnce
    /\ last.status = "ok"
    /\ ~last.hit
    /\ last.proc = proc
    /\ InMemoryUnderEveryKey
    /\ last.saves = 0

\* The keys of the version variants of the call recorded in last: the
\* requested version, no version, and the resolved version when known.
variantKeys(c) ==
    {getCacheKey(c.importPath,
                 getPkgVersion(c.importPath, c.version, c.goVersion), c.sel),
     getCacheKey(c.importPath, <<>>, c.sel)}
    \cup (IF c.actualVersion # <<>>
          THEN {getCacheKey(c.importPath, c.actualVersion, c.sel)} ELSE {})

\* This step is a Load that follows a successful miss in the same process
\* with the same Godoc configuration, unit and symbol, and with one of the
\* version variants of that miss.
FollowingVariantLoad ==
    /\ LoadStep
    /\ last.status = "ok"
    /\ ~last.hit
    /\ last'.status = "ok"
    /\ last'.importPath = last.importPath
    /\ last'.sel = last.sel
    /\ last'.version \in {last.version, <<>>, last.actualVersion}
    /\ last'.goos = last.goos
    /\ last'.goarch = last.goarch
    /\ last'.workdir = last.workdir
    /\ last'.proc = last.proc

\* C10: a Load that misses and succeeds leaves one and the same entry
\* under the requested key, the version-agnostic key and the key of the
\* resolved version when known; a following Load of the same unit and
\* symbol with any of these version variants returns the same document.
C10_AliasesWrittenTogether ==
    [][/\ (LoadStep /\ last'.status = "ok" /\ ~last'.hit) =>
            \A k \in variantKeys(last') :
               LET got == getValidCacheEntry(globalCache', k)
               IN got.ok /\ got.entry = last'.entry
       /\ FollowingVariantLoad => last'.res = last.res]_vars

\* A miss of the remote module without version resolved a version and
\* left its entry under the version-agnostic key and the key of the
\* resolved version.
C10_Witness ==
    /\ last.status = "ok"
    /\ ~last.hit
    /\ last.proc = proc
    /\ last.importPath = Rem
    /\ last.version = <<>>
    /\ last.actualVersion = V1
    /\ Len(last.keys) = 2
    /\ InMemoryUnderEveryKey

\* The selector component of a key's byte stream is empty.
KeyOfPackage(k) == k[Len(k)] = NUL

\* Every entry of the map m carries exactly one payload, and it is the
\* package document exactly under the keys without selector.
OnePayloadPerEntry(m) ==
    \A k \in DOMAIN m :
       /\ (m[k].Package # <<>>) # (m[k].Symbol # <<>>)
       /\ (m[k].Package # <<>>) = KeyOfPackage(k)

\* C11: every cache entry written by Load has exactly one payload: the
\* package document for a package-level load, the symbol document for a
\* symbol-level load; the two kinds are stored under different keys.
C11_ExactlyOnePayload ==
    /\ OnePayloadPerEntry(globalCache.m)
    /\ OnePayloadPerEntry(snapshot.m)
    /\ (last.status = "ok" /\ ~last.hit) =>
          /\ (last.entry.Package # <<>>) = (last.sel = <<>>)
          /\ (last.entry.Symbol # <<>>) = (last.sel # <<>>)
          /\ \A i \in 1..Len(last.keys) : KeyOfPackage(last.keys[i]) = (last.sel = <<>>)

\* The cache holds a package entry and a symbol entry of the same import
\* path side by side.
C11_Witness ==
    /\ \E k \in DOMAIN globalCache.m : globalCache.m[k].Package # <<>>
    /\ \E k \in DOMAIN globalCache.m : globalCache.m[k].Symbol # <<>>

\* The Load of this step extracted the unit and its well-formed selector
\* is not in the symbol index.
SelectorAbsent ==
    /\ LoadStep
    /\ last'.built
    /\ last'.sel # <<>>
    /\ last'.sel \notin Symbols

\* C12: when the selector is well-formed but absent from the symbol index
\* of a successfully extracted unit, Load returns the not-found error and
\* writes no cache entry: memory and snapshot hold what they held before.
C12_AbsentSelectorWritesNothing ==
    [][SelectorAbsent =>
         /\ last'.status = "err"
         /\ last'.err = ErrSelectorNotFound
         /\ last'.res = <<>>
         /\ last'.keys = <<>>
         /\ last'.saves = 0
         /\ globalCache' = getCache(globals).cache
         /\ snapshot' = snapshot]_vars

\* The selector z was looked for in an extracted unit and not found.
C12_Witness ==
    /\ last.built
    /\ last.sel = <<"z">>
    /\ last.err = ErrSelectorNotFound
    /\ ~globalCache.isNil

\* C13: when the direct load fails and the dependency setup fails as well,
\* Load returns one error that wraps both causes and no second extraction
\* is attempted.
C13_BothCausesKept ==
    (last.loadErr # "" /\ last.depErr # "") =>
        /\ last.status = "err"
        /\ last.err = ErrSetup
        /\ last.wraps = {last.loadErr, last.depErr}
        /\ Cardinality(last.wraps) = 2
        /\ last.nLoads = 1
        /\ last.keys = <<>>

\* A Load whose direct load failed and whose sandbox could not be set up.
C13_Witness ==
    /\ last.loadErr # ""
    /\ last.depErr = "go get failed"
    /\ last.err = ErrSetup

\* The dependency resolver of the last Load answered with the working
\* directory of the Godoc.
ResolvedToWorkdir ==
    /\ last.loadErr # ""
    /\ last.depErr = ""
    /\ last.depDir = last.workdir

\* C14: a sandbox directory created during a Load is removed exactly once
\* before the Load returns, on every exit path, and nothing is removed
\* when the resolver returned the working directory.
C14_SandboxRemovedOnce ==
    /\ last.created <= 1
    /\ last.removed = last.created
    /\ ResolvedToWorkdir => (last.created = 0 /\ last.removed = 0)

\* A Load that succeeded inside a sandbox and removed it.
C14_Witness ==
    /\ last.status = "ok"
    /\ last.created = 1
    /\ last.removed = 1
    /\ last.depDir \notin ProjectDirs \cup {"", ".", "none"}

\* Loads that left through the other exits: a failed go mod init, a failed
\* go get, a failed extraction inside the sandbox, the working directory.
C14_ExitInitFailed == last.depErr = "go mod init failed" /\ last.removed = 1
C14_ExitGetFailed == last.depErr = "go get failed" /\ last.removed = 1
C14_ExitLoadFailed == last.err = "load with module dependency failed" /\ last.removed = 1
C14_ExitWorkdir == ResolvedToWorkdir /\ last.nLoads = 2

\* The last Load answered with a symbol of a cache entry whose stored
\* import path is empty.
ServedLegacySymbol ==
    /\ last.status = "ok"
    /\ last.hit
    /\ last.sel # <<>>
    /\ last.foundEntry.Symbol # <<>>
    /\ last.foundEntry.Symbol[1].ImportPath = <<>>

\* C15: a SymbolDoc that Load returns from a cache entry whose stored
\* import path is empty has a non-empty ImportPath.
C15_CachedSymbolHasImportPath ==
    ServedLegacySymbol => last.res[1].ImportPath # <<>>

\* What Load does return for such an entry: the stored symbol as it is,
\* the import path still empty.
C15_CachedSymbolKeepsEmptyImportPath ==
    ServedLegacySymbol =>
        /\ last.res = last.foundEntry.Symbol
        /\ last.pkgPath = <<>>
        /\ last.res[1].ImportPath = <<>>

C15_Witness == ServedLegacySymbol /\ last.importPath = Std

\* C16: the HTML of a SymbolDoc is rendered at most once per instance;
\* later HTML() calls return the stored value.
C16_RenderedAtMostOnce == renders <= 1

\* What holds instead: a call renders whenever the held value has a parsed
\* doc and no HTML, the held value is never assigned to, and every call
\* returns the same string.
C16_EveryCallRenders ==
    [][/\ sym' = sym
       /\ (sym.DocHTML = <<>> /\ sym.docParsed # <<>>) => renders' = renders + 1
       /\ htmlCalls >= 1 => html' = html]_vars

\* The SymbolDoc of the test, rendered by a second HTML() call.
C16_Witness ==
    /\ htmlCalls = 2
    /\ renders = 2
    /\ html # <<>>

\* No key is less than the key before it.
NonDecreasing(keys) ==
    \A i \in 1..Len(keys) : i > 1 => ~stringLess(keys[i], keys[i - 1])

\* C17: in the PackageDoc built from any package, Funcs and Types are in
\* non-decreasing order of Name, Consts and Vars in non-decreasing order of
\* their comma-joined names, and the methods of every type in
\* non-decreasing order of name; every declaration delivered is in its list.
C17_ListsSorted ==
    pdoc.built =>
        /\ NonDecreasing(namesOf(pdoc.Funcs))
        /\ NonDecreasing(namesOf(pdoc.Types))
        /\ NonDecreasing(joinedNamesOf(pdoc.Consts))
        /\ NonDecreasing(joinedNamesOf(pdoc.Vars))
        /\ \A i \in 1..Len(pdoc.Types) : NonDecreasing(namesOf(pdoc.Types[i].Methods))
        /\ Len(pdoc.Funcs) = Len(dp.Funcs) + Len(collect(dp.Types, "Funcs"))
        /\ Len(pdoc.Consts) = Len(dp.Consts) + Len(collect(dp.Types, "Consts"))
        /\ Len(pdoc.Vars) = Len(dp.Vars) + Len(collect(dp.Types, "Vars"))
        /\ Len(pdoc.Types) = Len(dp.Types)

\* A package delivered with functions, constants and variables in
\* decreasing order was built.
C17_Witness ==
    /\ pdoc.built
    /\ Len(dp.Funcs) = 2 /\ stringLess(dp.Funcs[2], dp.Funcs[1])
    /\ Len(dp.Consts) = 2
    /\ stringLess(Join(dp.Consts[2], <<",">>), Join(dp.Consts[1], <<",">>))
    /\ Len(dp.Vars) = 2
    /\ stringLess(Join(dp.Vars[2], <<",">>), Join(dp.Vars[1], <<",">>))
    /\ Len(pdoc.Funcs) = 2

\* Two types delivered in decreasing order, the first with its methods in
\* decreasing order, were built.
C17_TypesWitness ==
    /\ pdoc.built
    /\ Len(dp.Types) = 2 /\ stringLess(dp.Types[2].Name, dp.Types[1].Name)
    /\ Len(dp.Types[1].Methods) = 2
    /\ stringLess(dp.Types[1].Methods[2].Name, dp.Types[1].Methods[1].Name)

\* The doc of the first registration under key k.
FirstRegistered(regs, k) ==
    regs[CHOOSE i \in 1..Len(regs) :
            regs[i].key = k /\ \A j \in 1..Len(regs) : j < i => regs[j].key # k].doc

\* The type of dp named name.
DeliveredType(name) ==
    dp.Types[CHOOSE i \in 1..Len(dp.Types) : dp.Types[i].Name = name]

\* C18: the symbol index holds, under every qualified name, the entry
\* registered first; in the method list of a type every name occurs once,
\* and a name that is declared on the type has the declared method.
C18_FirstRegisteredWins ==
    /\ index.built =>
          With(registrations(dp, Std), LAMBDA regs :
             /\ DOMAIN index.m = {regs[i].key : i \in 1..Len(regs)}
             /\ \A k \in DOMAIN index.m : index.m[k] = FirstRegistered(regs, k))
    /\ pdoc.built =>
          \A i \in 1..Len(pdoc.Types) :
             With(pdoc.Types[i].Methods, LAMBDA methods :
                /\ \A a, b \in 1..Len(methods) :
                       methods[a].Name = methods[b].Name => a = b
                /\ \A a \in 1..Len(methods) :
                       \A m \in 1..Len(DeliveredType(pdoc.Types[i].Name).Methods) :
                          With(DeliveredType(pdoc.Types[i].Name).Methods[m], LAMBDA decl :
                             methods[a].Name = decl.Name
                                => methods[a].RecvName = decl.RecvName))

\* Both lists were built for a type that declares a method of the name of
\* one of its interface methods and of one of its associated functions.
C18_Witness ==
    /\ index.built
    /\ pdoc.built
    /\ \E i \in 1..Len(dp.Types) :
          /\ \E a \in 1..Len(dp.Types[i].Methods), b \in 1..Len(dp.Types[i].Iface) :
                dp.Types[i].Methods[a].Name = dp.Types[i].Iface[b]
          /\ \E a \in 1..Len(dp.Types[i].Methods), b \in 1..Len(dp.Types[i].Funcs) :
                dp.Types[i].Methods[a].Name = dp.Types[i].Funcs[b]

\* C19: a cache entry is treated as absent once the time-to-live has
\* passed since it was written: a Load issued then extracts again even
\* though the entry is still stored.
C19_ExpiredEntryExtractedAgain ==
    (last.expired /\ last.found /\ last.status = "ok") => Rebuilt

\* What holds instead: an entry that passes the freshness test is served
\* however long ago it was written.
C19_ExpiredEntryServed ==
    (/\ last.expired
     /\ last.found
     /\ isFresh(last.importPath, payloadOf(last.foundEntry), last.foundEntry,
                getPkgVersion(last.importPath, last.version, last.goVersion)))
        => ServedFromEntry

\* A Load issued after the time-to-live that answered from the cache.
C19_Witness ==
    /\ last.expired
    /\ last.hit
    /\ last.status = "ok"

\* C20: while persistence is active, a Load that changes the in-memory
\* cache, by the write-back after a miss or by the provenance update on a
\* hit, writes the snapshot before it returns, and at its end the snapshot
\* holds the entries of the in-memory cache.
\* Stated for a Load none of whose snapshot writes failed, and whose cache
\* held the entries of the snapshot when it began.
C20_EveryChangeWritesSnapshot ==
    [][(LoadStep /\ cachePersistent' /\ last'.saveRes \in {"none", "ok"}) =>
         /\ globalCache'.m # getCache(globals).cache.m => last'.saves >= 1
         /\ snapshot.m = getCache(globals).cache.m => snapshot'.m = globalCache'.m]_vars

\* A hit that recorded the running toolchain in the entry in memory and
\* left the snapshot as it was.
C20_Witness ==
    /\ cachePersistent
    /\ last.proc = proc
    /\ last.backfill
    /\ last.saves = 0
    /\ snapshot.m # globalCache.m

\* C21: at no time are two snapshot writes in progress: between
\* cacheMu.Lock() and the deferred Unlock there is at most one call, and
\* it is the call that holds the mutex.
C21_OneSnapshotWriter ==
    /\ \A v, w \in Workers :
          (pc[v] \in {"save", "writing", "unlock"}
             /\ pc[w] \in {"save", "writing", "unlock"}) => v = w
    /\ \A w \in Workers : pc[w] \in {"save", "writing", "unlock"} => cacheMu = w

\* One call writes the snapshot while another waits for the mutex.
C21_Witness ==
    \E v, w \in Workers : pc[v] = "writing" /\ pc[w] = "lock"

\* Every concurrent call has returned a result.
AllReturnedOk == \A w \in Workers : pc[w] = "done" /\ loc[w].status = "ok"

\* The entries of the cache after one Load of the unit on an empty cache.
SingleLoadCache ==
    With(buildDoc(New("", "", "."), unit.importPath, <<>>, unit.sel # <<>>, AllOk),
         LAMBDA b :
    With(getCacheKey(unit.importPath, getPkgVersion(unit.importPath, <<>>, goVersion),
                     unit.sel), LAMBDA key :
       setAll(EmptyMap,
              [Package |-> IF unit.sel = <<>> THEN <<b.pkgDoc>> ELSE <<>>,
               Symbol |-> IF unit.sel = <<>> THEN <<>> ELSE <<b.symbols[unit.sel]>>,
               GoVersion |-> b.meta.GoVersion,
               ModuleVersion |-> b.meta.ModuleVersion],
              missKeys(unit.importPath, key, unit.sel, b.actualVersion))))

\* The concurrent calls that returned a result returned the same one.
EqualResults == \A v, w \in Workers : loc[v].res = loc[w].res

\* C22: when the concurrent Loads of one specifier on a cache that does not
\* hold it have all returned, their results are equal and the cache holds
\* what it holds after a single such Load.
C22_ConcurrentLoadsLikeOne ==
    AllReturnedOk => (EqualResults /\ globalCache.m = SingleLoadCache)

\* Every concurrent call has returned, with a result or with an error.
AllReturned == \A w \in Workers : pc[w] = "done"

\* C30: as long as some concurrent call has not returned, some call can
\* take a step: no call is left waiting forever.
C30_NoCallWaitsForever == AllReturned \/ ENABLED NextConc

\* C30, as a property of the fair runs: all calls eventually return.
C30_AllEventuallyReturn == <>AllReturned

\* The once gate and the mutex by themselves block nobody for ever: a run
\* in which no call panics ends with all calls returned.
C30_ReturnOrCrash == <>(AllReturned \/ Crashed)

\* A call has panicked in cache.Set on the nil cache while the call that ran
\* the initialisation has returned its error.
C30_CrashAfterFailedInit ==
    \E v, w \in Workers : pc[v] = "panic" /\ pc[w] = "done" /\ loc[w].err = ErrCacheDir

\* The words of an error message.
wordsOf(err) == {err.msg[i] : i \in DOMAIN err.msg}

\* The commands of the Load that failed while the context was done.
FailedUnderDoneContext == {f \in dep.failed : f.ctx # ""}

\* C23: the error of a command that fails while the context is cancelled or
\* past its deadline names the context's error and is none of the errors an
\* ordinary failure of that command gives; the Load then returns an error
\* and no result.
C23_ContextErrorReported ==
    /\ \A f \in FailedUnderDoneContext :
          /\ f.ctx \in wordsOf(f.err)
          /\ \A e \in RunErrors \cup CtxErrors : f.err # runGo(f.args, e, "")
    /\ (dep.pc = "done" /\ FailedUnderDoneContext # {}) =>
          (dep.status = "err" /\ dep.res = <<>>)

\* The probe was killed when the deadline passed, and the Load has returned.
C23_Witness ==
    /\ dep.pc = "done"
    /\ \E f \in dep.failed :
          /\ f.args = <<"list">>
          /\ f.runErr = "signal: killed"
          /\ f.ctx = "context deadline exceeded"

\* No empty element and no element twice.
NoEmptyNoRepeat(keys) ==
    /\ \A i \in DOMAIN keys : keys[i] # <<>>
    /\ \A i, j \in DOMAIN keys : keys[i] = keys[j] => i = j

\* C24: the keys handed to setCacheEntry on a miss hold no empty key and
\* no key twice.
C24_MissKeysDistinct == NoEmptyNoRepeat(last.keys)

\* The keys of a miss whose resolved version is not the requested one are
\* distinct and in the order requested, unversioned, resolved.
C24_DistinctWhenResolvedDiffers ==
    (last.keys # <<>> /\ last.actualVersion # last.version) => NoEmptyNoRepeat(last.keys)

\* C25: in a process whose cache directory cannot be created, every call
\* that asks for the cache returns the initialisation error.
C25_EveryCallReportsInitError ==
    (~cacheDirOk /\ last.getCacheCalls > 0) =>
        (last.status = "err" /\ last.err = ErrCacheDir)

\* In such a process persistence stays off and no cache is ever published.
C25_PersistenceStaysOff ==
    (~cacheDirOk /\ last.getCacheCalls > 0) =>
        (~cachePersistent /\ cacheFilePath = "" /\ globalCache.isNil)

\* checkModuleDep: the key of depCache.
depKey(importPath, version) ==
    IF version # <<>> THEN importPath \o <<"@">> \o version ELSE importPath

\* The number of `go list` probes of a call: its commands less those of the
\* sandbox bootstrap (go mod init, go get).
probesOf(call) ==
    call.cmds - (IF call.depErr = "go mod init failed" THEN 1
                 ELSE IF call.depErr = "go get failed" THEN 2
                 ELSE IF call.depErr = "" /\ call.created > 0 THEN 2
                 ELSE 0)

\* The call resolved the dependency and its Godoc already held the outcome
\* of the probe for the key.
ResolvedWithStoredProbe ==
    /\ last.status # "none"
    /\ last.proc = proc
    /\ last.loadErr # ""
    /\ depKey(last.importPath, TrimSpace(last.version)) \in DOMAIN last.depBefore

C26_WitnessStoredTrue ==
    /\ ResolvedWithStoredProbe
    /\ last.depBefore[depKey(last.importPath, TrimSpace(last.version))]

\* The call was a package-level load whose first loadPkg call succeeded.
PkgFirstPassOk ==
    /\ last.status # "none"
    /\ last.sel = <<>>
    /\ last.nLoads > 0
    /\ last.loadErr = ""

\* C27: a package-level load loads the package without type information
\* first; it loads it again with type information exactly when the first
\* pass holds an interface with an unnamed method entry; when the typed
\* load fails, buildDoc still succeeds and the result is the first pass's.
C27_TypedReloadOnlyForEmbedded ==
    PkgFirstPassOk =>
       With(found(last.importPath, physical(last.firstDir)), LAMBDA f :
          /\ last.reloaded = f.embedded
          /\ last.nLoads = (IF f.embedded THEN 2 ELSE 1)
          /\ last.built
          /\ last.status = "ok" =>
                /\ last.res[1].typed => last.reloaded
                /\ last.res[1].ImportPath = f.pkgPath
                /\ last.res[1].from = f.from)

\* The typed load failed and the call returned the first pass's package.
C27_Witness ==
    PkgFirstPassOk /\ last.reloaded /\ last.status = "ok" /\ ~last.res[1].typed

\* The typed load succeeded and the call returned the typed package.
C27_WitnessTyped ==
    PkgFirstPassOk /\ last.reloaded /\ last.status = "ok" /\ last.res[1].typed

\* The errors of validateInputs.
InputErrors == {ErrEmptyImportPath, ErrInvalidImportPath, ErrInvalidSelector}

\* The errors of buildDoc after a failed dependency setup or a failed load
\* in the resolved directory.
ResolutionErrors == {ErrSetup, "load with module dependency failed"}

\* A Load returns an input error, a resolution error or selector-not-found.
LoadFails ==
    /\ LoadStep
    /\ last'.status = "err"
    /\ last'.err \in InputErrors \cup ResolutionErrors \cup {ErrSelectorNotFound}

\* C28: a Load that returns an input error, a resolution error or the
\* not-found error leaves the cache as it was: the entries in memory are
\* those the cache held, or was initialised with, and the snapshot file is
\* not written.
C28_FailedLoadLeavesCache ==
    [][LoadFails =>
         /\ last'.res = <<>>
         /\ last'.keys = <<>>
         /\ last'.saves = 0
         /\ ~last'.backfill
         /\ globalCache' = (IF last'.err \in InputErrors THEN globalCache
                            ELSE getCache(globals).cache)
         /\ snapshot' = snapshot]_vars

\* A Load failed with a resolution error while the cache held entries.
C28_Witness ==
    /\ last.status = "err"
    /\ last.err \in ResolutionErrors
    /\ ~globalCache.isNil
    /\ globalCache.m # EmptyMap

\* A Load failed with an input error while the cache held entries.
C28_WitnessInput ==
    /\ last.status = "err"
    /\ last.err \in InputErrors
    /\ ~globalCache.isNil
    /\ globalCache.m # EmptyMap

\* A Load failed with the not-found error while the cache held entries.
C28_WitnessNotFound ==
    /\ last.status = "err"
    /\ last.err = ErrSelectorNotFound
    /\ ~globalCache.isNil
    /\ globalCache.m # EmptyMap

\* C29: the result of a Load of the relative path ./p is the documentation
\* of ./p in the project directory of the process that made the call, never
\* that of another project directory.
C29_RelativeEntryOfThisDir ==
    (last.status = "ok" /\ last.proc = proc /\ last.importPath = Rel) =>
        last.res[1].from = cwd

====
